---- MODULE Spec2Model ----
(***************************************************************************)
(* gipas-mute: scheduled whole-group mute for chat groups.                 *)
(*                                                                         *)
(* The module models                                                       *)
(*   - the helper functions of Utils/utils.ts (time parsing, rule          *)
(*     matching with previous-day lookback, weekday names),                *)
(*   - the schedule index and rule-group selection of MuteCore,            *)
(*   - the reconciliation of one group (reconcileMuteState) with the       *)
(*     multi-backend action helpers of Utils/MuteCore.ts and the           *)
(*     mute_states table of database.ts,                                   *)
(*   - the heartbeat loop MuteCore.run.                                    *)
(*                                                                         *)
(* A time string "HH:mm" is the sequence of its ':'-separated numeric      *)
(* fields, <<7, 15>> for "07:15"; a string without ':' has one field.      *)
(* A Date is a record [day, hours, minutes] (getDay, getHours,             *)
(* getMinutes).  A value that may be absent is NULL; a raised error is     *)
(* Thrown(e).                                                              *)
(***************************************************************************)
EXTENDS Integers, Sequences, FiniteSets, TLC

VARIABLES
    args,            \* inputs of the function under study (pure-function specifications)
    ret,             \* its result, NotCalled before the call
    config,          \* MuteCore.config: the GlobalConfig in force
    muteGroupMap,    \* MuteCore.muteGroupMap: name -> MuteGroup
    weekGroupMap,    \* MuteCore.weekGroupMap: name -> WeekGroup
    groupConfigMap,  \* MuteCore.groupConfigMap: guildId -> GroupConfig
    heartbeatInterval, \* the heartbeat's interval timer: "set" until cleared
    bots,            \* ctx.bots: the platform of each registered bot, in order
    db,              \* the mute_states table: guildId -> row, NULL when absent
    real,            \* the platform's whole-group ban of each group
    wall,            \* the current instant (new Date())
    calendar,        \* the calendar classification of the current day
    outage,          \* TRUE while calls to the backends and the store may fail
    task,            \* the asynchronous calls in progress: position and locals
    last,            \* per group, what its last completed reconciliation did
    holidayCache,    \* utils.ts holidayCache: date key -> result, NULL when absent
    cacheTimestamp,  \* utils.ts cacheTimestamp: date key -> time of caching
    onlineYearCache, \* utils.ts onlineYearCache: year -> [fetchedAt, days]
    clock,           \* Date.now(), in hours
    api,             \* the tables holiday.cyi.me publishes: year -> days
    chineseDays      \* what require('chinese-days') gives, and its answers

pureVars == <<args, ret>>

coreVars == <<config, muteGroupMap, weekGroupMap, groupConfigMap, heartbeatInterval>>

envVars == <<bots, db, real, wall, calendar, outage>>

runVars == <<task, last>>

holidayVars == <<holidayCache, cacheTimestamp, onlineYearCache, clock, api, chineseDays>>

vars == <<args, ret, config, muteGroupMap, weekGroupMap, groupConfigMap,
          heartbeatInterval,
          bots, db, real, wall, calendar, outage, task, last,
          holidayCache, cacheTimestamp, onlineYearCache, clock, api, chineseDays>>

NULL == [null |-> TRUE]

Thrown(e) == [throw |-> e]

IsThrown(v) == "throw" \in DOMAIN v

NotCalled == [called |-> FALSE]

Returned(v) == [called |-> TRUE, value |-> v]

\* The holiday lookup at rest, for the specifications that do not study it:
\* nothing cached, no table published, no offline package installed.
HolidayPinned ==
    /\ holidayCache = <<>>
    /\ cacheTimestamp = <<>>
    /\ onlineYearCache = <<>>
    /\ clock = 0
    /\ api = <<>>
    /\ chineseDays = NULL

-----------------------------------------------------------------------------
(* Bounds of the model.                                                    *)

MaxRules == 3        \* longest rule list of a mute group
MaxHour  == 2        \* largest hour field of a rule time / of now
MaxBots  == 2        \* most bots registered in ctx.bots

-----------------------------------------------------------------------------
(* Utils/utils.ts                                                          *)

\* The isNaN guard of parseTimeToMinutes: "HH:mm".split(':').map(Number)
\* has an hours and a minutes field (a missing one is undefined, hence NaN).
TimeParses(timeStr) == Len(timeStr) >= 2

\* hours * 60 + minutes, for a time string that passes the guard.
parseTimeToMinutes(timeStr) == timeStr[1] * 60 + timeStr[2]

getTimeString(date) == <<date.hours, date.minutes>>

\* Mutant of InsertRule: rule r goes in front of the rules already placed
\* that have its time (an unstable sort).
RECURSIVE InsertRuleBeforeEqual(_, _)
InsertRuleBeforeEqual(r, sorted) ==
    IF sorted = <<>>
    THEN <<r>>
    ELSE IF parseTimeToMinutes(sorted[Len(sorted)].time) < parseTimeToMinutes(r.time)
         THEN Append(sorted, r)
         ELSE Append(InsertRuleBeforeEqual(r, SubSeq(sorted, 1, Len(sorted) - 1)),
                     sorted[Len(sorted)])

\* One step of the stable ascending sort: rule r goes behind every rule
\* already placed whose time is not greater.
RECURSIVE InsertRule(_, _)
InsertRule(r, sorted) ==
    IF sorted = <<>>
    THEN <<r>>
    ELSE IF parseTimeToMinutes(sorted[Len(sorted)].time) <= parseTimeToMinutes(r.time)
         THEN Append(sorted, r)
         ELSE Append(InsertRule(r, SubSeq(sorted, 1, Len(sorted) - 1)),
                     sorted[Len(sorted)])

\* Mutant of SortRules: the sort left out.
SortRulesInputOrder(rules) == rules

\* [...rules].sort((a, b) => parse(a.time) - parse(b.time)), stable.
RECURSIVE SortRules(_)
SortRules(rules) ==
    IF rules = <<>>
    THEN <<>>
    ELSE InsertRule(rules[Len(rules)], SortRules(SubSeq(rules, 1, Len(rules) - 1)))

\* Mutant of ScanBack: the boundary excluded (< instead of <=).
RECURSIVE ScanBackExclusive(_, _, _)
ScanBackExclusive(sortedRules, i, nowMinutes) ==
    IF i < 1
    THEN 0
    ELSE IF parseTimeToMinutes(sortedRules[i].time) < nowMinutes
         THEN i
         ELSE ScanBackExclusive(sortedRules, i - 1, nowMinutes)

\* The loop from the last sorted rule down to the first: the index of the
\* first rule met whose time is <= nowMinutes, 0 when there is none.
RECURSIVE ScanBack(_, _, _)
ScanBack(sortedRules, i, nowMinutes) ==
    IF i < 1
    THEN 0
    ELSE IF parseTimeToMinutes(sortedRules[i].time) <= nowMinutes
         THEN i
         ELSE ScanBack(sortedRules, i - 1, nowMinutes)

\* Mutant of LookbackRule: the first rule of the day instead of the last.
LookbackRuleFirst(sortedRules) == sortedRules[1]

\* The rule carried over from the previous day: the last sorted rule.
LookbackRule(sortedRules) == sortedRules[Len(sortedRules)]

AnyBadTime(rules) ==
    \E i \in 1..Len(rules) : ~TimeParses(rules[i].time)

BuildExpected(matchedRule, name, isFromPreviousDay) ==
    [isMuted           |-> matchedRule.isMuted,
     triggerTime       |-> matchedRule.time,
     muteGroupName     |-> name,
     isFromPreviousDay |-> isFromPreviousDay]

getExpectedState(now, muteGroup) ==
    LET nowMinutes == parseTimeToMinutes(getTimeString(now))
    IN  IF AnyBadTime(muteGroup.rules)
        THEN Thrown("badTime")
        ELSE IF Len(muteGroup.rules) = 0
        THEN Thrown("noRules")
        ELSE LET sortedRules == SortRules(muteGroup.rules)
                 i == ScanBack(sortedRules, Len(sortedRules), nowMinutes)
             IN  IF i # 0
                 THEN BuildExpected(sortedRules[i], muteGroup.name, FALSE)
                 ELSE BuildExpected(LookbackRule(sortedRules), muteGroup.name, TRUE)

DayNames ==
    <<"sunday", "monday", "tuesday", "wednesday", "thursday", "friday", "saturday">>

getDayOfWeek(date) == DayNames[date.day + 1]

-----------------------------------------------------------------------------
(* Input domains of the pure-function specifications.                      *)

\* Rule times: two-digit fields as the configuration pattern \d{2}:\d{2}
\* admits them, so a minutes field of 60 is a legal input ("00:60" and
\* "01:00" are different strings for the same minute of the day).
RuleTimes == {<<h, 0>> : h \in 0..MaxHour} \cup {<<0, 60>>}

RuleSet == [time : RuleTimes, isMuted : BOOLEAN]

RuleLists == UNION {[1..n -> RuleSet] : n \in 1..MaxRules}

\* Dates: getHours/getMinutes of a real instant.
NowDates == [day : 0..6, hours : 0..MaxHour, minutes : {0, 30}]

-----------------------------------------------------------------------------
(* MuteCore: the schedule index.                                           *)

\* The loops of buildMaps: a later entry with the same key replaces an
\* earlier one.
IndexBy(list, key) ==
    [k \in {list[i][key] : i \in 1..Len(list)} |->
        list[CHOOSE i \in 1..Len(list) :
                /\ list[i][key] = k
                /\ \A j \in 1..Len(list) : list[j][key] = k => j <= i]]

buildMaps(cfg) ==
    [muteGroupMap   |-> IndexBy(cfg.muteGroups, "name"),
     weekGroupMap   |-> IndexBy(cfg.weekGroups, "name"),
     groupConfigMap |-> IndexBy(cfg.groupConfigs, "guildId")]

\* Map.get(name) ?? null
MapGet(map, name) == IF name \in DOMAIN map THEN map[name] ELSE NULL

getMuteGroup(name) == MapGet(muteGroupMap, name)

getWeekGroup(name) == MapGet(weekGroupMap, name)

getGroupConfig(guildId) == MapGet(groupConfigMap, guildId)

\* muteGroupName || 'default'
OrDefault(muteGroupName) == IF muteGroupName = "" THEN "default" ELSE muteGroupName

\* Mutant of getApplicableMuteGroupName: the holiday test before the
\* compensation test.
getApplicableHolidayFirst(date, groupConfig, holidayResult) ==
    IF groupConfig.enableHoliday /\ holidayResult.isHoliday
    THEN groupConfig.holidayMuteGroup
    ELSE IF groupConfig.enableHoliday /\ holidayResult.isCompensationDay
    THEN groupConfig.compensationMuteGroup
    ELSE LET weekGroup == getWeekGroup(groupConfig.defaultWeekGroup)
         IN  IF weekGroup = NULL
             THEN "default"
             ELSE OrDefault(weekGroup.weekdays[getDayOfWeek(date)])

getApplicableMuteGroupName(date, groupConfig, holidayResult) ==
    IF groupConfig.enableHoliday /\ holidayResult.isCompensationDay
    THEN groupConfig.compensationMuteGroup
    ELSE IF groupConfig.enableHoliday /\ holidayResult.isHoliday
    THEN groupConfig.holidayMuteGroup
    ELSE LET weekGroup == getWeekGroup(groupConfig.defaultWeekGroup)
         IN  IF weekGroup = NULL
             THEN "default"
             ELSE OrDefault(weekGroup.weekdays[getDayOfWeek(date)])

-----------------------------------------------------------------------------
(* Configuration values.                                                   *)

\* README / schema defaults: a workday table, a holiday table and the
\* 'default' table the schema ships.
MuteGroupWorkday ==
    [name |-> "workday", sendNotification |-> TRUE,
     rules |-> << [time |-> <<9, 0>>, isMuted |-> TRUE],
                  [time |-> <<18, 0>>, isMuted |-> FALSE] >>]

MuteGroupHoliday ==
    [name |-> "holiday", sendNotification |-> FALSE,
     rules |-> << [time |-> <<0, 0>>, isMuted |-> FALSE] >>]

MuteGroupDefault ==
    [name |-> "default", sendNotification |-> FALSE,
     rules |-> << [time |-> <<7, 0>>, isMuted |-> TRUE],
                  [time |-> <<18, 0>>, isMuted |-> FALSE] >>]

\* README: saturday and sunday mapped to the empty name.
WeekGroupStandard ==
    [name |-> "standard",
     weekdays |-> [monday |-> "workday", tuesday |-> "workday",
                   wednesday |-> "workday", thursday |-> "workday",
                   friday |-> "workday", saturday |-> "", sunday |-> ""]]

\* schema.ts: every weekday mapped to a named group.
WeekGroupFilled ==
    [name |-> "standard",
     weekdays |-> [monday |-> "workday", tuesday |-> "workday",
                   wednesday |-> "workday", thursday |-> "workday",
                   friday |-> "workday", saturday |-> "weekend", sunday |-> "weekend"]]

Classifications == [isHoliday : BOOLEAN, isCompensationDay : BOOLEAN]

-----------------------------------------------------------------------------
(* The runtime around MuteCore.                                            *)

\* Group ids: the configured groups.  Number(guildId) is a number for
\* these; an id Number() maps to NaN is not in NumericIds.
Guilds == {"100", "200"}

NumericIds == {"100", "200"}

\* The asynchronous calls that can be in progress: the heartbeat's run.
Tasks == {"heartbeat"}

\* A call's locals: its position, its instant, the entries it loops over
\* and its index in them, the classification and the expected state of the
\* current entry, the backends it goes through; and, kept for the
\* properties, what kind of call it is, the entries it has dealt with
\* (which stay on view after the call has returned, until the next call)
\* and what the index in force when the call began gives for its entries.
IdleTask ==
    [pc |-> "idle", kind |-> "none", now |-> NULL, list |-> <<>>, i |-> 0,
     holiday |-> NULL, expected |-> NULL, bots |-> <<>>, b |-> 0,
     existing |-> FALSE, obs |-> NULL, visited |-> <<>>, snapshot |-> <<>>]

Monday0900 == [day |-> 1, hours |-> 9, minutes |-> 0]

NormalDay == [isHoliday |-> FALSE, isCompensationDay |-> FALSE]

\* The runtime at rest, for the specifications of single functions.
RuntimePinned ==
    /\ bots = <<>>
    /\ db = [g \in Guilds |-> NULL]
    /\ real = [g \in Guilds |-> FALSE]
    /\ wall = Monday0900
    /\ calendar = NormalDay
    /\ outage = FALSE
    /\ task = [t \in Tasks |-> IdleTask]
    /\ last = [g \in Guilds |-> NULL]

-----------------------------------------------------------------------------
(* Specification of getExpectedState over all bounded inputs.              *)

CorePinned ==
    /\ config = [holidayMethod |-> "offline", muteGroups |-> <<>>,
                 weekGroups |-> <<>>, groupConfigs |-> <<>>]
    /\ muteGroupMap = buildMaps(config).muteGroupMap
    /\ weekGroupMap = buildMaps(config).weekGroupMap
    /\ groupConfigMap = buildMaps(config).groupConfigMap
    /\ heartbeatInterval = "set"

InitExpected ==
    /\ args \in [now : {d \in NowDates : d.day = 1},
                 muteGroup : [name : {"workday"}, sendNotification : {TRUE},
                              rules : RuleLists]]
    /\ ret = NotCalled
    /\ CorePinned
    /\ HolidayPinned
    /\ RuntimePinned

CallGetExpectedState ==
    /\ ~ret.called
    /\ ret' = Returned(getExpectedState(args.now, args.muteGroup))
    /\ UNCHANGED <<args, coreVars, holidayVars, envVars, runVars>>

NextExpected == CallGetExpectedState

SpecExpected == InitExpected /\ [][NextExpected]_vars

\* The rules of the call and the time-of-day of its instant.
ArgRules == args.muteGroup.rules

ArgNowMinutes == parseTimeToMinutes(getTimeString(args.now))

RuleMinutes(i) == parseTimeToMinutes(ArgRules[i].time)

\* Rule i of the input is what the result reports.
ResultIsRule(i) ==
    /\ ret.value.triggerTime = ArgRules[i].time
    /\ ret.value.isMuted = ArgRules[i].isMuted

\* C6: when some rule has time <= now, the result is a rule with the
\* greatest time <= now (a rule at exactly now counts) and
\* isFromPreviousDay is false.
Thm_C6_LatestRuleNotAfterNow ==
    ret.called =>
        LET due == {i \in 1..Len(ArgRules) : RuleMinutes(i) <= ArgNowMinutes}
        IN  due # {} =>
              /\ ~IsThrown(ret.value)
              /\ ret.value.isFromPreviousDay = FALSE
              /\ \E i \in due :
                    /\ ResultIsRule(i)
                    /\ \A j \in due : RuleMinutes(j) <= RuleMinutes(i)

\* A call at exactly a rule's time, with an earlier and a later rule around it.
Wit_C6_BoundaryRuleSelected ==
    /\ ret.called
    /\ \E i, j, k \in 1..Len(ArgRules) :
          /\ RuleMinutes(i) = ArgNowMinutes
          /\ RuleMinutes(j) < ArgNowMinutes
          /\ RuleMinutes(k) > ArgNowMinutes
          /\ ResultIsRule(i)

\* C7: when now is strictly before the earliest rule, the result is the
\* chronologically last rule with isFromPreviousDay true; isFromPreviousDay
\* is true in no other case.
Thm_C7_LookbackToLastRule ==
    ret.called =>
        LET early == \A i \in 1..Len(ArgRules) : ArgNowMinutes < RuleMinutes(i)
        IN  /\ ~IsThrown(ret.value)
            /\ ret.value.isFromPreviousDay = early
            /\ early =>
                 \E i \in 1..Len(ArgRules) :
                    /\ ResultIsRule(i)
                    /\ \A j \in 1..Len(ArgRules) : RuleMinutes(j) <= RuleMinutes(i)

\* A lookback over a list given out of order: the last rule in time is not
\* the last of the list.
Wit_C7_LookbackHappens ==
    /\ ret.called
    /\ ret.value.isFromPreviousDay
    /\ Len(ArgRules) >= 2
    /\ RuleMinutes(Len(ArgRules)) < RuleMinutes(1)
    /\ ResultIsRule(1)

\* The permutations of 1..n, for every length a rule list can have.
AllRulePermutations ==
    [n \in 1..MaxRules |->
        {p \in [1..n -> 1..n] : \A a, b \in 1..n : p[a] = p[b] => a = b}]

RulePermutations(n) == AllRulePermutations[n]

Permuted(rules, p) == [i \in 1..Len(rules) |-> rules[p[i]]]

SamePermutedResult ==
    \A p \in RulePermutations(Len(ArgRules)) :
        getExpectedState(args.now,
                         [args.muteGroup EXCEPT !.rules = Permuted(ArgRules, p)])
          = ret.value

DistinctRuleTimes ==
    \A i, j \in 1..Len(ArgRules) : RuleMinutes(i) = RuleMinutes(j) => i = j

\* C8 as stated: one result, the same for every permutation of the rules.
Cex_C8_AnyPermutation ==
    ret.called => ~IsThrown(ret.value) /\ SamePermutedResult

\* C8 amended: one result, the same for every permutation of the rules when
\* no two rules of the group have the same time of day.
Thm_C8_PermutationDistinctTimes ==
    ret.called =>
        /\ ~IsThrown(ret.value)
        /\ DistinctRuleTimes => SamePermutedResult

\* Three rules at three times, given latest first.
Wit_C8_UnsortedInput ==
    /\ ret.called
    /\ Len(ArgRules) = 3
    /\ DistinctRuleTimes
    /\ RuleMinutes(1) > RuleMinutes(2)
    /\ RuleMinutes(2) > RuleMinutes(3)
    /\ ~ret.value.isFromPreviousDay

-----------------------------------------------------------------------------
(* Specification of getApplicableMuteGroupName over all bounded inputs.    *)

ApplicableConfigs ==
    {[holidayMethod |-> "offline",
      muteGroups |-> <<MuteGroupWorkday, MuteGroupHoliday, MuteGroupDefault>>,
      weekGroups |-> <<wg>>,
      groupConfigs |-> <<>>] : wg \in {WeekGroupStandard, WeekGroupFilled}}

InitApplicable ==
    /\ config \in ApplicableConfigs
    /\ muteGroupMap = buildMaps(config).muteGroupMap
    /\ weekGroupMap = buildMaps(config).weekGroupMap
    /\ groupConfigMap = buildMaps(config).groupConfigMap
    /\ heartbeatInterval = "set"
    /\ HolidayPinned
    /\ args \in [date : {d \in NowDates : d.hours = 0 /\ d.minutes = 0},
                 groupConfig : [guildId : {"100"},
                                enableHoliday : BOOLEAN,
                                holidayMuteGroup : {"holiday"},
                                compensationMuteGroup : {"workday", "compensation"},
                                defaultWeekGroup : {"standard", "absent"}],
                 holidayResult : Classifications]
    /\ ret = NotCalled
    /\ RuntimePinned

CallGetApplicableMuteGroupName ==
    /\ ~ret.called
    /\ ret' = Returned(getApplicableMuteGroupName(args.date, args.groupConfig,
                                                  args.holidayResult))
    /\ UNCHANGED <<args, coreVars, holidayVars, envVars, runVars>>

NextApplicable == CallGetApplicableMuteGroupName

SpecApplicable == InitApplicable /\ [][NextApplicable]_vars

\* C9: with enableHoliday and a compensation day the result is the
\* compensation group, on every weekday and whatever isHoliday says.
Thm_C9_CompensationFirst ==
    (/\ ret.called
     /\ args.groupConfig.enableHoliday
     /\ args.holidayResult.isCompensationDay)
        => ret.value = args.groupConfig.compensationMuteGroup

\* A Sunday classified both as holiday and as compensation day.
Wit_C9_CompensationAndHoliday ==
    /\ ret.called
    /\ args.groupConfig.enableHoliday
    /\ args.holidayResult.isCompensationDay
    /\ args.holidayResult.isHoliday
    /\ args.date.day = 0
    /\ ret.value = "compensation"

\* C10 as stated: the holiday group exactly when enableHoliday, isHoliday
\* and not isCompensationDay; with enableHoliday false the result is the
\* week group's entry for the weekday of the date.
Cex_C10_HolidayElseWeekdayEntry ==
    ret.called =>
        /\ (ret.value = args.groupConfig.holidayMuteGroup)
              <=> (/\ args.groupConfig.enableHoliday
                   /\ args.holidayResult.isHoliday
                   /\ ~args.holidayResult.isCompensationDay)
        /\ (/\ ~args.groupConfig.enableHoliday
            /\ args.groupConfig.defaultWeekGroup \in DOMAIN weekGroupMap)
              => ret.value = weekGroupMap[args.groupConfig.defaultWeekGroup]
                                .weekdays[getDayOfWeek(args.date)]

-----------------------------------------------------------------------------
(* Utils/MuteCore.ts: the action helpers.                                  *)

\* ctx.bots.filter((b) => b.platform === 'onebot')
OnebotBots(allBots) == SelectSeq(allBots, LAMBDA p : p = "onebot")

\* isNaN(Number(guildId))
IsNaNId(guildId) == guildId \notin NumericIds

\* The two early returns of setGroupMute and of sendGroupMessage: the call
\* logs a warning and returns normally without reaching any backend.
ReturnsWithoutBackend(guildId) ==
    IsNaNId(guildId) \/ Len(OnebotBots(bots)) = 0

-----------------------------------------------------------------------------
(* database.ts: the mute_states table.  The lastUpdated column is a time   *)
(* stamp nothing reads back and is left out of the rows.                   *)

Row(guildId, isMuted, appliedMuteGroup) ==
    [guildId |-> guildId, isMuted |-> isMuted, appliedMuteGroup |-> appliedMuteGroup]

\* states.length > 0 ? states[0] : null
getMuteState(guildId) == db[guildId]

\* Mutant of DbSet: the row's appliedMuteGroup is left as it was.
DbSetKeepsGroup(table, guildId, isMuted, appliedMuteGroup) ==
    IF table[guildId] = NULL
    THEN table
    ELSE [table EXCEPT ![guildId] = Row(guildId, isMuted, table[guildId].appliedMuteGroup)]

\* ctx.database.set('mute_states', {guildId}, ...): the matching rows.
DbSet(table, guildId, isMuted, appliedMuteGroup) ==
    IF table[guildId] = NULL
    THEN table
    ELSE [table EXCEPT ![guildId] = Row(guildId, isMuted, appliedMuteGroup)]

\* ctx.database.create('mute_states', ...)
DbCreate(table, guildId, isMuted, appliedMuteGroup) ==
    [table EXCEPT ![guildId] = Row(guildId, isMuted, appliedMuteGroup)]

-----------------------------------------------------------------------------
(* MuteCore: expected state and reconciliation.                            *)

\* Mutant of computeExpectedState: an error of getExpectedState is not
\* caught into "no expected state" but answered with "not muted".
computeExpectedStateOpenOnError(now, groupConfig, holidayResult) ==
    LET muteGroupName == getApplicableMuteGroupName(now, groupConfig, holidayResult)
        muteGroup == getMuteGroup(muteGroupName)
    IN  IF muteGroup = NULL
        THEN NULL
        ELSE LET expectedState == getExpectedState(now, muteGroup)
             IN  IF IsThrown(expectedState)
                 THEN BuildExpected([isMuted |-> FALSE, time |-> <<0, 0>>],
                                    muteGroupName, FALSE)
                 ELSE expectedState

computeExpectedState(now, groupConfig, holidayResult) ==
    LET muteGroupName == getApplicableMuteGroupName(now, groupConfig, holidayResult)
        muteGroup == getMuteGroup(muteGroupName)
    IN  IF muteGroup = NULL
        THEN NULL
        ELSE LET expectedState == getExpectedState(now, muteGroup)
             IN  IF IsThrown(expectedState) THEN NULL ELSE expectedState

\* For each entry of list and each classification of the day, the expected
\* state the index now in force gives at the instant now.
SnapshotOf(now, list) ==
    [k \in 1..Len(list) |->
        [holidayResult \in Classifications |->
            computeExpectedState(now, list[k], holidayResult)]]

\* Mutant of StateAligned: the comparison never succeeds.
StateAlignedNever(dbState, expectedState) == FALSE

\* Mutant of StateAligned: any existing row counts as aligned.
StateAlignedRowExists(dbState, expectedState) == dbState # NULL

\* Mutant of StateAligned: a row written by the manual command counts as
\* aligned.
StateAlignedManualKept(dbState, expectedState) ==
    dbState # NULL /\ (dbState.isMuted = expectedState.isMuted
                          \/ dbState.appliedMuteGroup = "manual")

\* currentIsMuted === expectedState.isMuted, currentIsMuted being null
\* for an absent row.
StateAligned(dbState, expectedState) ==
    dbState # NULL /\ dbState.isMuted = expectedState.isMuted

\* if (groupConfig.guildId) { if (muteGroup?.sendNotification) ... }
WantsNotification(groupConfig, expectedState) ==
    /\ groupConfig.guildId # ""
    /\ LET muteGroup == getMuteGroup(expectedState.muteGroupName)
       IN  muteGroup # NULL /\ muteGroup.sendNotification

\* checkHoliday as the heartbeat sees it: the classification of the day,
\* or, in online mode while the remote source is failing, an error.
CheckHolidayResults(method) ==
    {calendar} \cup (IF method = "online" /\ outage THEN {Thrown("calendar")} ELSE {})

\* What a reconciliation in progress has done so far: the row it read, the
\* calls of setGroupMute it made, whether a backend applied the state, the
\* rows it wrote, the messages it sent, the log line it ended on
\* (unchanged / transitioned / failed), the call that raised, and the row
\* when it ended.
NewObs(guildId, expectedState) ==
    [guild |-> guildId, exp |-> expectedState.isMuted, before |-> NULL,
     invoked |-> 0, acted |-> FALSE, writes |-> 0, notifs |-> 0,
     outcome |-> "pending", error |-> "none", after |-> NULL]

\* Mutant of AfterEntity: an entry that ended in an error ends the run.
AfterEntityStopsOnError(rec, outcome) ==
    LET visited == Append(rec.visited,
                          [guild |-> rec.list[rec.i].guildId, outcome |-> outcome])
    IN  IF rec.i < Len(rec.list) /\ outcome \in {"unchanged", "transitioned"}
        THEN [IdleTask EXCEPT !.pc = "holiday", !.kind = rec.kind, !.now = rec.now,
                              !.list = rec.list, !.i = rec.i + 1,
                              !.visited = visited, !.snapshot = rec.snapshot]
        ELSE [IdleTask EXCEPT !.kind = rec.kind, !.list = rec.list,
                              !.visited = visited]

\* The for-of loop of run moving on, the current entry having ended in
\* outcome: the next entry, or the end of run.
AfterEntity(rec, outcome) ==
    LET visited == Append(rec.visited,
                          [guild |-> rec.list[rec.i].guildId, outcome |-> outcome])
    IN  IF rec.i < Len(rec.list)
        THEN [IdleTask EXCEPT !.pc = "holiday", !.kind = rec.kind, !.now = rec.now,
                              !.list = rec.list, !.i = rec.i + 1,
                              !.visited = visited, !.snapshot = rec.snapshot]
        ELSE [IdleTask EXCEPT !.kind = rec.kind, !.list = rec.list,
                              !.visited = visited]

\* run(): const now = new Date(); the loop starts on config.groupConfigs.
StartRun(t) ==
    /\ task[t].pc = "idle"
    /\ Len(config.groupConfigs) > 0
    /\ task' = [task EXCEPT ![t] =
                  [IdleTask EXCEPT !.pc = "holiday", !.kind = "run", !.now = wall,
                                   !.list = config.groupConfigs, !.i = 1,
                                   !.snapshot = SnapshotOf(wall, config.groupConfigs)]]
    /\ UNCHANGED <<args, ret, coreVars, holidayVars, envVars, last>>

\* Mutant of HolidayReturns: the expected state is computed for the time
\* at which the classification arrives.
HolidayReturnsReadsClock(t) ==
    /\ task[t].pc = "holiday"
    /\ \E r \in CheckHolidayResults(config.holidayMethod) :
          LET rec == task[t]
              groupConfig == rec.list[rec.i]
          IN  \E expectedState \in
                    {IF IsThrown(r) THEN NULL
                     ELSE computeExpectedState(wall, groupConfig, r)} :
                task' = [task EXCEPT ![t] =
                           IF IsThrown(r)
                           THEN AfterEntity(rec, "calendar")
                           ELSE IF expectedState = NULL
                           THEN AfterEntity(rec, "config")
                           ELSE [rec EXCEPT !.pc = "getState",
                                            !.holiday = r,
                                            !.expected = expectedState,
                                            !.obs = NewObs(groupConfig.guildId,
                                                           expectedState)]]
    /\ UNCHANGED <<args, ret, coreVars, holidayVars, envVars, last>>

\* await checkHoliday(...) resolves or rejects; computeExpectedState; an
\* error or no expected state skips the entry.
HolidayReturns(t) ==
    /\ task[t].pc = "holiday"
    /\ \E r \in CheckHolidayResults(config.holidayMethod) :
          LET rec == task[t]
              groupConfig == rec.list[rec.i]
          IN  \E expectedState \in
                    {IF IsThrown(r) THEN NULL
                     ELSE computeExpectedState(rec.now, groupConfig, r)} :
                task' = [task EXCEPT ![t] =
                           IF IsThrown(r)
                           THEN AfterEntity(rec, "calendar")
                           ELSE IF expectedState = NULL
                           THEN AfterEntity(rec, "config")
                           ELSE [rec EXCEPT !.pc = "getState",
                                            !.holiday = r,
                                            !.expected = expectedState,
                                            !.obs = NewObs(groupConfig.guildId,
                                                           expectedState)]]
    /\ UNCHANGED <<args, ret, coreVars, holidayVars, envVars, last>>

\* reconcileMuteState: await getMuteState resolves; the comparison; the
\* call of setGroupMute up to its first await.
GetStateReturns(t) ==
    /\ task[t].pc = "getState"
    /\ LET rec == task[t]
           guildId == rec.obs.guild
           dbState == getMuteState(guildId)
       IN  task' = [task EXCEPT ![t] =
              IF StateAligned(dbState, rec.expected)
              THEN [rec EXCEPT !.pc = "reconciled",
                               !.obs = [@ EXCEPT !.before = dbState,
                                                 !.outcome = "unchanged",
                                                 !.after = dbState]]
              ELSE IF ReturnsWithoutBackend(guildId)
              THEN [rec EXCEPT !.pc = "updRead",
                               !.obs = [@ EXCEPT !.before = dbState, !.invoked = @ + 1]]
              ELSE [rec EXCEPT !.pc = "mute", !.bots = OnebotBots(bots), !.b = 1,
                               !.obs = [@ EXCEPT !.before = dbState, !.invoked = @ + 1]]]
    /\ UNCHANGED <<args, ret, coreVars, holidayVars, envVars, last>>

\* Mutant of BotMuteOk: the ban is applied to every group.
BotMuteOkEveryGroup(t) ==
    /\ task[t].pc = "mute"
    /\ LET rec == task[t]
       IN  /\ real' = [g \in Guilds |-> rec.expected.isMuted]
           /\ task' = [task EXCEPT ![t] =
                         [rec EXCEPT !.pc = "updRead", !.bots = <<>>, !.b = 0,
                                     !.obs = [@ EXCEPT !.acted = TRUE]]]
    /\ UNCHANGED <<args, ret, coreVars, holidayVars, bots, db, wall, calendar, outage, last>>

\* setGroupMute: bot.internal.setGroupWholeBan of the current bot succeeds.
BotMuteOk(t) ==
    /\ task[t].pc = "mute"
    /\ LET rec == task[t]
       IN  /\ real' = [real EXCEPT ![rec.obs.guild] = rec.expected.isMuted]
           /\ task' = [task EXCEPT ![t] =
                         [rec EXCEPT !.pc = "updRead", !.bots = <<>>, !.b = 0,
                                     !.obs = [@ EXCEPT !.acted = TRUE]]]
    /\ UNCHANGED <<args, ret, coreVars, holidayVars, bots, db, wall, calendar, outage, last>>

\* Mutant of BotMuteFails: the error of the last bot is swallowed and
\* setGroupMute returns normally.
BotMuteFailsSwallowed(t) ==
    /\ task[t].pc = "mute"
    /\ outage
    /\ LET rec == task[t]
       IN  task' = [task EXCEPT ![t] =
              IF rec.b < Len(rec.bots)
              THEN [rec EXCEPT !.b = @ + 1]
              ELSE [rec EXCEPT !.pc = "updRead", !.bots = <<>>, !.b = 0,
                               !.obs = [@ EXCEPT !.error = "action"]]]
    /\ UNCHANGED <<args, ret, coreVars, holidayVars, envVars, last>>

\* setGroupMute: the current bot throws; the next bot, or lastError raised
\* and caught by reconcileMuteState.
BotMuteFails(t) ==
    /\ task[t].pc = "mute"
    /\ outage
    /\ LET rec == task[t]
       IN  task' = [task EXCEPT ![t] =
              IF rec.b < Len(rec.bots)
              THEN [rec EXCEPT !.b = @ + 1]
              ELSE [rec EXCEPT !.pc = "reconciled", !.bots = <<>>, !.b = 0,
                               !.obs = [@ EXCEPT !.outcome = "failed",
                                                 !.error = "action",
                                                 !.after = db[rec.obs.guild]]]]
    /\ UNCHANGED <<args, ret, coreVars, holidayVars, envVars, last>>

\* updateMuteState: await getMuteState resolves.
UpdReadReturns(t) ==
    /\ task[t].pc = "updRead"
    /\ LET rec == task[t]
       IN  task' = [task EXCEPT ![t] =
                      [rec EXCEPT !.pc = "updWrite",
                                  !.existing = (getMuteState(rec.obs.guild) # NULL)]]
    /\ UNCHANGED <<args, ret, coreVars, holidayVars, envVars, last>>

\* updateMuteState: set or create succeeds; then the notification test and
\* the call of sendGroupMessage up to its first await.
UpdWriteOk(t) ==
    /\ task[t].pc = "updWrite"
    /\ LET rec == task[t]
           guildId == rec.obs.guild
           e == rec.expected
       IN  /\ rec.existing \/ db[guildId] = NULL
           /\ db' = IF rec.existing
                    THEN DbSet(db, guildId, e.isMuted, e.muteGroupName)
                    ELSE DbCreate(db, guildId, e.isMuted, e.muteGroupName)
           /\ task' = [task EXCEPT ![t] =
                 IF WantsNotification(rec.list[rec.i], e) /\ ~ReturnsWithoutBackend(guildId)
                 THEN [rec EXCEPT !.pc = "notify", !.bots = OnebotBots(bots), !.b = 1,
                                  !.obs = [@ EXCEPT !.writes = @ + 1,
                                                    !.outcome = "transitioned",
                                                    !.after = db'[guildId]]]
                 ELSE [rec EXCEPT !.pc = "reconciled",
                                  !.obs = [@ EXCEPT !.writes = @ + 1,
                                                    !.outcome = "transitioned",
                                                    !.after = db'[guildId]]]]
    /\ UNCHANGED <<args, ret, coreVars, holidayVars, bots, real, wall, calendar, outage, last>>

\* Mutant of UpdWriteFails: the store reports the failure after it has
\* written the row.
UpdWriteFailsAfterWriting(t) ==
    /\ task[t].pc = "updWrite"
    /\ outage
    /\ LET rec == task[t]
           guildId == rec.obs.guild
           e == rec.expected
       IN  /\ db' = IF db[guildId] # NULL
                    THEN DbSet(db, guildId, e.isMuted, e.muteGroupName)
                    ELSE DbCreate(db, guildId, e.isMuted, e.muteGroupName)
           /\ task' = [task EXCEPT ![t] =
                         [rec EXCEPT !.pc = "reconciled",
                                     !.obs = [@ EXCEPT !.outcome = "failed",
                                                       !.error = "persist",
                                                       !.after = db'[guildId]]]]
    /\ UNCHANGED <<args, ret, coreVars, holidayVars, bots, real, wall, calendar, outage, last>>

\* updateMuteState: set or create throws (the store fails, or create meets
\* a row already there); caught by reconcileMuteState.
UpdWriteFails(t) ==
    /\ task[t].pc = "updWrite"
    /\ LET rec == task[t]
       IN  /\ outage \/ (~rec.existing /\ db[rec.obs.guild] # NULL)
           /\ task' = [task EXCEPT ![t] =
                         [rec EXCEPT !.pc = "reconciled",
                                     !.obs = [@ EXCEPT !.outcome = "failed",
                                                       !.error = "persist",
                                                       !.after = db[rec.obs.guild]]]]
    /\ UNCHANGED <<args, ret, coreVars, holidayVars, envVars, last>>

\* sendGroupMessage: bot.internal.sendGroupMsg of the current bot succeeds.
BotSendOk(t) ==
    /\ task[t].pc = "notify"
    /\ task' = [task EXCEPT ![t] =
                  [@ EXCEPT !.pc = "reconciled", !.bots = <<>>, !.b = 0,
                            !.obs = [@ EXCEPT !.notifs = @ + 1]]]
    /\ UNCHANGED <<args, ret, coreVars, holidayVars, envVars, last>>

\* Mutant of BotSendFails: the failed notification takes the row back to
\* what it was before the reconciliation.
BotSendFailsRollsBack(t) ==
    /\ task[t].pc = "notify"
    /\ outage
    /\ LET rec == task[t]
       IN  IF rec.b < Len(rec.bots)
           THEN /\ task' = [task EXCEPT ![t] = [rec EXCEPT !.b = @ + 1]]
                /\ db' = db
           ELSE /\ task' = [task EXCEPT ![t] =
                      [rec EXCEPT !.pc = "reconciled", !.bots = <<>>, !.b = 0,
                                  !.obs = [@ EXCEPT !.outcome = "failed",
                                                    !.error = "notify",
                                                    !.after = rec.obs.before]]]
                /\ db' = [db EXCEPT ![rec.obs.guild] = rec.obs.before]
    /\ UNCHANGED <<args, ret, coreVars, holidayVars, bots, real, wall, calendar, outage, last>>

\* sendGroupMessage: the current bot throws; the next bot, or lastError
\* raised and caught by reconcileMuteState.
BotSendFails(t) ==
    /\ task[t].pc = "notify"
    /\ outage
    /\ LET rec == task[t]
       IN  task' = [task EXCEPT ![t] =
              IF rec.b < Len(rec.bots)
              THEN [rec EXCEPT !.b = @ + 1]
              ELSE [rec EXCEPT !.pc = "reconciled", !.bots = <<>>, !.b = 0,
                               !.obs = [@ EXCEPT !.error = "notify"]]]
    /\ UNCHANGED <<args, ret, coreVars, holidayVars, envVars, last>>

\* await this.reconcileMuteState(...) resolves in run: the loop moves on.
ResumeRun(t) ==
    /\ task[t].pc = "reconciled"
    /\ last' = [last EXCEPT ![task[t].obs.guild] = task[t].obs]
    /\ task' = [task EXCEPT ![t] = AfterEntity(task[t], task[t].obs.outcome)]
    /\ UNCHANGED <<args, ret, coreVars, holidayVars, envVars>>

-----------------------------------------------------------------------------
(* The environment.                                                        *)

Monday0200 == [day |-> 1, hours |-> 2, minutes |-> 0]

Saturday0900 == [day |-> 6, hours |-> 9, minutes |-> 0]

Holiday == [isHoliday |-> TRUE, isCompensationDay |-> FALSE]

CompensationDay == [isHoliday |-> FALSE, isCompensationDay |-> TRUE]

Sunday0900 == [day |-> 0, hours |-> 9, minutes |-> 0]

\* The instants the clock is observed at, with the day's classification.
Moments ==
    {[date |-> Monday0200, class |-> NormalDay],
     [date |-> Monday0900, class |-> NormalDay],
     [date |-> Monday0900, class |-> Holiday],
     [date |-> Saturday0900, class |-> NormalDay],
     [date |-> Saturday0900, class |-> CompensationDay]}

TimePasses ==
    /\ \E m \in Moments :
          /\ <<m.date, m.class>> # <<wall, calendar>>
          /\ wall' = m.date
          /\ calendar' = m.class
    /\ UNCHANGED <<args, ret, coreVars, holidayVars, bots, db, real, outage, runVars>>

\* ctx.bots is the framework's live list: an adapter connects a bot.
BotConnects ==
    /\ Len(bots) < MaxBots
    /\ \E platform \in {"onebot", "other"} : bots' = Append(bots, platform)
    /\ UNCHANGED <<args, ret, coreVars, holidayVars, db, real, wall, calendar, outage, runVars>>

OutageBegins ==
    /\ ~outage
    /\ outage' = TRUE
    /\ UNCHANGED <<args, ret, coreVars, holidayVars, bots, db, real, wall, calendar, runVars>>

OutageEnds ==
    /\ outage
    /\ outage' = FALSE
    /\ UNCHANGED <<args, ret, coreVars, holidayVars, bots, db, real, wall, calendar, runVars>>

-----------------------------------------------------------------------------
(* The heartbeat.                                                          *)

GroupConfig100 ==
    [guildId |-> "100", enableHoliday |-> TRUE, holidayMuteGroup |-> "holiday",
     compensationMuteGroup |-> "workday", defaultWeekGroup |-> "standard"]

\* The schema's defaults: a compensation group and a week group nobody
\* defined.
GroupConfig200 ==
    [guildId |-> "200", enableHoliday |-> TRUE, holidayMuteGroup |-> "holiday",
     compensationMuteGroup |-> "compensation", defaultWeekGroup |-> "default"]

MainConfig(method, groupConfigs) ==
    [holidayMethod |-> method,
     muteGroups |-> <<MuteGroupWorkday, MuteGroupHoliday, MuteGroupDefault>>,
     weekGroups |-> <<WeekGroupStandard>>,
     groupConfigs |-> groupConfigs]

BotLists == UNION {[1..n -> {"onebot", "other"}] : n \in 0..MaxBots}

InitRuntime(configs) ==
    /\ args = NULL
    /\ ret = NotCalled
    /\ config \in configs
    /\ muteGroupMap = buildMaps(config).muteGroupMap
    /\ weekGroupMap = buildMaps(config).weekGroupMap
    /\ groupConfigMap = buildMaps(config).groupConfigMap
    /\ heartbeatInterval = "set"
    /\ HolidayPinned
    /\ bots \in BotLists
    /\ db = [g \in Guilds |-> NULL]
    /\ real \in {r \in [Guilds -> BOOLEAN] :
                    \A g \in Guilds : g \notin DOMAIN groupConfigMap => r[g] = FALSE}
    /\ \E m \in Moments : wall = m.date /\ calendar = m.class
    /\ outage = FALSE
    /\ task = [t \in Tasks |-> IdleTask]
    /\ last = [g \in Guilds |-> NULL]

Init ==
    InitRuntime({MainConfig("online", <<GroupConfig100>>),
                 MainConfig("hybrid", <<GroupConfig200>>)})

Next ==
    \/ \E t \in Tasks :
          \/ StartRun(t)
          \/ HolidayReturns(t)
          \/ GetStateReturns(t)
          \/ BotMuteOk(t)
          \/ BotMuteFails(t)
          \/ UpdReadReturns(t)
          \/ UpdWriteOk(t)
          \/ UpdWriteFails(t)
          \/ BotSendOk(t)
          \/ BotSendFails(t)
          \/ ResumeRun(t)
    \/ TimePasses
    \/ BotConnects
    \/ OutageBegins
    \/ OutageEnds

Spec == Init /\ [][Next]_vars

\* The heartbeat with the instant and the day's classification held fixed,
\* every pending await eventually settling and the timer firing again.
TaskStep ==
    \E t \in Tasks :
        \/ StartRun(t)
        \/ HolidayReturns(t)
        \/ GetStateReturns(t)
        \/ BotMuteOk(t)
        \/ BotMuteFails(t)
        \/ UpdReadReturns(t)
        \/ UpdWriteOk(t)
        \/ UpdWriteFails(t)
        \/ BotSendOk(t)
        \/ BotSendFails(t)
        \/ ResumeRun(t)

NextFixed ==
    \/ TaskStep
    \/ BotConnects
    \/ OutageBegins
    \/ OutageEnds

SpecFixed == Init /\ [][NextFixed]_vars /\ WF_vars(TaskStep)

-----------------------------------------------------------------------------
(* Properties of reconcileMuteState.                                       *)

\* The reconciliations whose row has been read.
Reading == {t \in Tasks : task[t].obs # NULL /\ task[t].pc # "getState"}

\* The reconciliations that have returned to their caller.
Returned2Caller == {t \in Tasks : task[t].pc = "reconciled"}

\* The row read is absent or differs from the expected state.
Mismatch(o) == o.before = NULL \/ o.before.isMuted # o.exp

\* The reconciliation of o follows, for the same group and with the same
\* expected state, the completed one recorded in last, the row untouched
\* in between.
FollowsSame(o) ==
    /\ last[o.guild] # NULL
    /\ last[o.guild].exp = o.exp
    /\ o.before = last[o.guild].after

\* C1 as stated: two consecutive reconciliations with the same expected
\* state and nothing changed in between make exactly one setGroupMute call
\* and one write in total, and the second makes none and ends unchanged.
Cex_C1_AlwaysOneCallOneWrite ==
    \A t \in Returned2Caller :
        LET o == task[t].obs
        IN  FollowsSame(o) =>
              /\ last[o.guild].invoked + o.invoked = 1
              /\ last[o.guild].writes + o.writes = 1
              /\ o.invoked = 0
              /\ o.writes = 0
              /\ o.outcome = "unchanged"

\* C1 amended: when the first of the two reconciliations made a transition
\* (its action and its write succeeded), the two make exactly one
\* setGroupMute call and one write in total, and the second makes none and
\* ends unchanged.
Thm_C1_SecondAlignUnchanged ==
    \A t \in Returned2Caller :
        LET o == task[t].obs
        IN  (FollowsSame(o) /\ last[o.guild].outcome = "transitioned") =>
              /\ last[o.guild].invoked + o.invoked = 1
              /\ last[o.guild].writes + o.writes = 1
              /\ o.invoked = 0
              /\ o.writes = 0
              /\ o.outcome = "unchanged"

\* A reconciliation ended unchanged right after one that muted the group.
Wit_C1_TransitionThenUnchanged ==
    \E t \in Returned2Caller :
        LET o == task[t].obs
        IN  /\ FollowsSame(o)
            /\ last[o.guild].outcome = "transitioned"
            /\ last[o.guild].before = NULL
            /\ last[o.guild].acted
            /\ o.exp = TRUE
            /\ o.outcome = "unchanged"

\* C2 as stated: a reconciliation writes the row only after a backend call
\* setting the group to the expected state succeeded in it.
Cex_C2_WriteOnlyAfterBackendSuccess ==
    \A t \in Tasks :
        task[t].obs # NULL => (task[t].obs.writes > 0 => task[t].obs.acted)

\* C3: when setGroupMute failed on every backend, the row after the attempt
\* is the row read before it, nothing was written and no message sent; and
\* the next reconciliation of the group with the same expected state calls
\* setGroupMute again.
Thm_C3_ActionFailureKeepsRow ==
    /\ \A t \in Returned2Caller :
          LET o == task[t].obs
          IN  o.error = "action" =>
                /\ o.outcome = "failed"
                /\ o.after = o.before
                /\ db[o.guild] = o.before
                /\ o.writes = 0
                /\ o.notifs = 0
    /\ \A t \in Reading :
          LET o == task[t].obs
          IN  (/\ last[o.guild] # NULL
               /\ last[o.guild].error = "action"
               /\ last[o.guild].exp = o.exp) => o.invoked = 1

\* Every backend failed in the last tick, and this tick tries again, with
\* two backends to go through.
Wit_C3_RetryAfterAllBackendsFailed ==
    \E t \in Reading :
        LET o == task[t].obs
        IN  /\ Len(task[t].bots) = 2
            /\ last[o.guild] # NULL
            /\ last[o.guild].error = "action"
            /\ last[o.guild].exp = o.exp
            /\ o.invoked = 1
            /\ task[t].pc = "mute"

\* C4: setGroupMute is called exactly when the row is absent or its
\* isMuted differs from the expected one; with an equal row there is no
\* call, no write and no message, and the row stays as read.
Thm_C4_ActionIffMismatch ==
    \A t \in Reading :
        LET o == task[t].obs
        IN  /\ (o.invoked = 1) <=> Mismatch(o)
            /\ o.invoked \in {0, 1}
            /\ ~Mismatch(o) =>
                 /\ task[t].pc = "reconciled"
                 /\ o.outcome = "unchanged"
                 /\ o.writes = 0
                 /\ o.notifs = 0
                 /\ ~o.acted
                 /\ db[o.guild] = o.before

\* Both cases in one run of the heartbeat's history: the group's row
\* exists and is equal (no call), after a tick that found it different.
Wit_C4_EqualRowNoCall ==
    \E t \in Returned2Caller :
        LET o == task[t].obs
        IN  /\ ~Mismatch(o)
            /\ o.invoked = 0
            /\ last[o.guild] # NULL
            /\ last[o.guild].before # NULL
            /\ last[o.guild].invoked = 1

-----------------------------------------------------------------------------
(* Convergence of the heartbeat.                                           *)

\* Every configured group whose rule group resolves has the expected state,
\* on the platform and in its row.
Converged ==
    \A i \in 1..Len(config.groupConfigs) :
        LET groupConfig == config.groupConfigs[i]
            e == computeExpectedState(wall, groupConfig, calendar)
        IN  e # NULL =>
              /\ real[groupConfig.guildId] = e.isMuted
              /\ db[groupConfig.guildId] # NULL
              /\ db[groupConfig.guildId].isMuted = e.isMuted

\* C5 as stated: with the expected state fixed and the heartbeat firing,
\* once the backends and the store stop failing, the platform state and the
\* row of every resolvable group become and stay the expected state.  The
\* premise is taken at its strongest: from some point on no call fails and
\* a onebot backend is connected.
Cex_C5_EventuallyConverged ==
    (<>[](~outage /\ OnebotBots(bots) # <<>>)) => <>[]Converged

-----------------------------------------------------------------------------
(* Specification of computeExpectedState over all bounded inputs.          *)

\* A rule group without rules, and one whose first rule has a time without
\* ':' (one numeric field): parseTimeToMinutes throws on it.
MuteGroupEmpty == [name |-> "empty", sendNotification |-> FALSE, rules |-> <<>>]

MuteGroupBadTime ==
    [name |-> "badtime", sendNotification |-> FALSE,
     rules |-> << [time |-> <<7>>, isMuted |-> TRUE],
                  [time |-> <<18, 0>>, isMuted |-> FALSE] >>]

\* A week group whose saturday and sunday name the broken rule groups.
WeekGroupBroken ==
    [name |-> "broken",
     weekdays |-> [monday |-> "workday", tuesday |-> "workday",
                   wednesday |-> "workday", thursday |-> "workday",
                   friday |-> "workday", saturday |-> "empty", sunday |-> "badtime"]]

\* Configurations with and without a rule group named 'default'.
ComputeConfigs ==
    {[holidayMethod |-> "offline",
      muteGroups |-> mgs,
      weekGroups |-> <<WeekGroupFilled, WeekGroupBroken>>,
      groupConfigs |-> <<>>] :
        mgs \in {<<MuteGroupWorkday, MuteGroupHoliday, MuteGroupDefault,
                   MuteGroupEmpty, MuteGroupBadTime>>,
                 <<MuteGroupWorkday, MuteGroupHoliday,
                   MuteGroupEmpty, MuteGroupBadTime>>}}

ComputeInstants == {Monday0200, Monday0900, Saturday0900, Sunday0900}

InitCompute ==
    /\ config \in ComputeConfigs
    /\ muteGroupMap = buildMaps(config).muteGroupMap
    /\ weekGroupMap = buildMaps(config).weekGroupMap
    /\ groupConfigMap = buildMaps(config).groupConfigMap
    /\ heartbeatInterval = "set"
    /\ HolidayPinned
    /\ args \in [now : ComputeInstants,
                 groupConfig : [guildId : {"100"},
                                enableHoliday : BOOLEAN,
                                holidayMuteGroup : {"holiday", "festival"},
                                compensationMuteGroup : {"workday", "compensation"},
                                defaultWeekGroup : {"standard", "broken", "absent"}],
                 holidayResult : Classifications]
    /\ ret = NotCalled
    /\ RuntimePinned

CallComputeExpectedState ==
    /\ ~ret.called
    /\ ret' = Returned(computeExpectedState(args.now, args.groupConfig,
                                            args.holidayResult))
    /\ UNCHANGED <<args, coreVars, holidayVars, envVars, runVars>>

NextCompute == CallComputeExpectedState

SpecCompute == InitCompute /\ [][NextCompute]_vars

\* The call takes the compensation branch, the holiday branch, or the
\* weekday branch.
ArgBranch ==
    IF args.groupConfig.enableHoliday /\ args.holidayResult.isCompensationDay
    THEN "compensation"
    ELSE IF args.groupConfig.enableHoliday /\ args.holidayResult.isHoliday
    THEN "holiday"
    ELSE "weekday"

\* The weekday branch of the call names a week group that is not defined.
ArgWeekGroupMissing ==
    /\ ArgBranch = "weekday"
    /\ args.groupConfig.defaultWeekGroup \notin DOMAIN weekGroupMap

\* The rule-group name the policy of the call refers to on its branch
\* (the week group being defined).
ArgReferencedName ==
    CASE ArgBranch = "compensation" -> args.groupConfig.compensationMuteGroup
      [] ArgBranch = "holiday" -> args.groupConfig.holidayMuteGroup
      [] OTHER -> weekGroupMap[args.groupConfig.defaultWeekGroup]
                      .weekdays[getDayOfWeek(args.now)]

\* C11 as stated: when the week group or the rule group the policy refers
\* to is not in the index, computeExpectedState yields no ExpectedState;
\* a result is always computed from the rule group referred to.
Cex_C11_MissingReferenceFails ==
    ret.called =>
        IF ArgWeekGroupMissing
        THEN ret.value = NULL
        ELSE /\ ArgReferencedName \notin DOMAIN muteGroupMap => ret.value = NULL
             /\ ret.value # NULL => ret.value.muteGroupName = ArgReferencedName

-----------------------------------------------------------------------------
(* The heartbeat and the manual check over configurations with several     *)
(* entries, the instant and the day's classification held fixed.           *)

\* An entry whose week group names a rule group without rules on saturday
\* and one with an unparsable time on sunday.
GroupConfigBroken ==
    [guildId |-> "200", enableHoliday |-> FALSE, holidayMuteGroup |-> "holiday",
     compensationMuteGroup |-> "workday", defaultWeekGroup |-> "broken"]

\* A second entry for group "100", with another week group.
GroupConfig100Again ==
    [guildId |-> "100", enableHoliday |-> FALSE, holidayMuteGroup |-> "holiday",
     compensationMuteGroup |-> "workday", defaultWeekGroup |-> "broken"]

BatchConfig(groupConfigs) ==
    [holidayMethod |-> "online",
     muteGroups |-> <<MuteGroupWorkday, MuteGroupHoliday, MuteGroupDefault,
                      MuteGroupEmpty, MuteGroupBadTime>>,
     weekGroups |-> <<WeekGroupStandard, WeekGroupBroken>>,
     groupConfigs |-> groupConfigs]

BatchMoments == {Monday0900, Saturday0900, Sunday0900}

\* checkGroupNow(guildId) up to its first await: the entry of the index,
\* const now = new Date().  Without an entry it returns at once.
StartCheckGroupNow(t) ==
    /\ task[t].pc = "idle"
    /\ \E guildId \in Guilds :
          /\ getGroupConfig(guildId) # NULL
          /\ task' = [task EXCEPT ![t] =
                        [IdleTask EXCEPT !.pc = "holiday", !.kind = "check",
                                         !.now = wall,
                                         !.list = <<getGroupConfig(guildId)>>,
                                         !.i = 1,
                                         !.snapshot =
                                            SnapshotOf(wall, <<getGroupConfig(guildId)>>)]]
    /\ UNCHANGED <<args, ret, coreVars, holidayVars, envVars, last>>

InitBatch ==
    /\ args = NULL
    /\ ret = NotCalled
    /\ config \in {BatchConfig(<<GroupConfigBroken, GroupConfig100>>),
                   BatchConfig(<<GroupConfig100, GroupConfig100Again>>)}
    /\ muteGroupMap = buildMaps(config).muteGroupMap
    /\ weekGroupMap = buildMaps(config).weekGroupMap
    /\ groupConfigMap = buildMaps(config).groupConfigMap
    /\ heartbeatInterval = "set"
    /\ HolidayPinned
    /\ bots \in BotLists
    /\ db = [g \in Guilds |-> NULL]
    /\ real \in {r \in [Guilds -> BOOLEAN] :
                    \A g \in Guilds : g \notin DOMAIN groupConfigMap => r[g] = FALSE}
    /\ wall \in BatchMoments
    /\ calendar = NormalDay
    /\ outage = FALSE
    /\ task = [t \in Tasks |-> IdleTask]
    /\ last = [g \in Guilds |-> NULL]

NextBatch ==
    \/ TaskStep
    \/ \E t \in Tasks : StartCheckGroupNow(t)
    \/ OutageBegins
    \/ OutageEnds

SpecBatch == InitBatch /\ [][NextBatch]_vars

\* The rule group the entry resolves to at the fixed instant exists but
\* has no rules or a rule whose time does not parse.
EntryBroken(groupConfig) ==
    LET muteGroup == getMuteGroup(getApplicableMuteGroupName(wall, groupConfig, calendar))
    IN  muteGroup # NULL /\ (Len(muteGroup.rules) = 0 \/ AnyBadTime(muteGroup.rules))

\* C12: an entry whose rule group is empty or has an unparsable time is
\* never reconciled: it ends the tick as skipped, the loop goes on to the
\* entries after it, and a group all of whose entries are such has had no
\* reconciliation and has no row.
Thm_C12_BrokenGroupSkipped ==
    /\ \A t \in Tasks :
          LET rec == task[t]
          IN  /\ rec.pc \notin {"idle", "holiday"} => ~EntryBroken(rec.list[rec.i])
              /\ \A k \in 1..Len(rec.visited) :
                    EntryBroken(rec.list[k]) =>
                      /\ rec.visited[k].outcome \in {"config", "calendar"}
                      /\ k < Len(rec.list) =>
                           \/ Len(rec.visited) > k
                           \/ rec.pc # "idle" /\ rec.i = k + 1
    /\ \A g \in DOMAIN groupConfigMap :
          (\A k \in 1..Len(config.groupConfigs) :
              config.groupConfigs[k].guildId = g => EntryBroken(config.groupConfigs[k]))
            => db[g] = NULL /\ last[g] = NULL

\* A finished tick on a sunday: group 200 (unparsable time) was skipped and
\* group 100 after it made its transition.
Wit_C12_SkippedThenNextProcessed ==
    \E t \in Tasks :
        LET rec == task[t]
        IN  /\ rec.pc = "idle"
            /\ rec.kind = "run"
            /\ wall = Sunday0900
            /\ Len(rec.visited) = 2
            /\ rec.visited[1] = [guild |-> "200", outcome |-> "config"]
            /\ rec.visited[2] = [guild |-> "100", outcome |-> "transitioned"]
            /\ db["200"] = NULL
            /\ db["100"] # NULL

\* C13: whatever fails for single entries, a tick deals with the entries
\* of config.groupConfigs one by one in their order, each once, and ends
\* having dealt with all of them.
Thm_C13_EveryEntryOnceInOrder ==
    \A t \in Tasks :
        LET rec == task[t]
        IN  rec.kind = "run" =>
              /\ rec.list = config.groupConfigs
              /\ \A k \in 1..Len(rec.visited) :
                    rec.visited[k].guild = rec.list[k].guildId
              /\ rec.pc = "idle" => Len(rec.visited) = Len(rec.list)
              /\ rec.pc # "idle" =>
                    /\ rec.i \in 1..Len(rec.list)
                    /\ Len(rec.visited) = rec.i - 1

\* A finished tick whose first entry met a calendar error and whose second
\* entry failed in its reconciliation.
Wit_C13_TwoFailuresFullPass ==
    \E t \in Tasks :
        LET rec == task[t]
        IN  /\ rec.pc = "idle"
            /\ rec.kind = "run"
            /\ Len(rec.visited) = 2
            /\ rec.visited[1].outcome = "calendar"
            /\ rec.visited[2].outcome = "failed"

\* The entries the heartbeat goes through for group guildId.
EntriesOf(guildId) ==
    {k \in 1..Len(config.groupConfigs) : config.groupConfigs[k].guildId = guildId}

\* The manual check t of a group agrees with what the heartbeat computes
\* for entry k at the same instant and classification: the same expected
\* state, handed to the same reconciliation; or no expected state in both.
CheckAgreesWithEntry(t, k) ==
    LET rec == task[t]
    IN  /\ rec.pc \notin {"idle", "holiday"} =>
              computeExpectedState(rec.now, config.groupConfigs[k], rec.holiday)
                = rec.expected
        /\ (rec.pc = "idle" /\ rec.visited[1].outcome = "config") =>
              computeExpectedState(wall, config.groupConfigs[k], calendar) = NULL
        /\ (rec.pc = "idle" /\ rec.visited[1].outcome \in {"unchanged", "transitioned", "failed"}) =>
              computeExpectedState(wall, config.groupConfigs[k], calendar) # NULL

\* C14 as stated: for every configured group id, checkGroupNow(id) computes
\* the expected state the heartbeat computes for that group at the same
\* instant, and so performs the same reconciliation.
Cex_C14_ManualSameAsHeartbeat ==
    \A t \in Tasks :
        task[t].kind = "check" =>
            \A k \in EntriesOf(task[t].list[1].guildId) : CheckAgreesWithEntry(t, k)

\* The same for the group ids that occur once in config.groupConfigs.
ManualSameWhenUnique ==
    \A t \in Tasks :
        (task[t].kind = "check" /\ Cardinality(EntriesOf(task[t].list[1].guildId)) = 1) =>
            \A k \in EntriesOf(task[t].list[1].guildId) : CheckAgreesWithEntry(t, k)

\* C18 as stated: a calendar lookup that fails during a heartbeat tick does
\* not end the entry's reconciliation: no entry of a run ends in the
\* lookup's error, every entry goes on to computeExpectedState.
Cex_C18_LookupFailureStillReconciles ==
    \A t \in Tasks :
        task[t].kind = "run" =>
            \A k \in 1..Len(task[t].visited) : task[t].visited[k].outcome # "calendar"

-----------------------------------------------------------------------------
(* Utils/utils.ts: checkHoliday.                                           *)
(*                                                                         *)
(* Here a Date is a record [year, month, day] (getFullYear, getMonth with  *)
(* January = 0, getDate); a date string "YYYY-MM-DD" is the tuple of its   *)
(* three numbers, the month counted from 1.  Times are in hours.  A Map    *)
(* is a function whose domain is the set of keys it has.  The holiday      *)
(* names that come with a classification are left out.                     *)

CACHE_DURATION == 24

ONLINE_YEAR_CACHE_DURATION == 12

ClockStep == 12      \* hours between two observations of Date.now()
MaxClock  == 24      \* last hour observed

MapSet(map, key, value) ==
    [k \in DOMAIN map \cup {key} |-> IF k = key THEN value ELSE map[k]]

MapDelete(map, key) == [k \in DOMAIN map \ {key} |-> map[k]]

formatDate(date) == <<date.year, date.month + 1, date.day>>

\* The three dates looked up: one inside a year, and the two sides of a
\* year boundary.
October1 == [year |-> 2025, month |-> 9, day |-> 1]

December31 == [year |-> 2025, month |-> 11, day |-> 31]

January1 == [year |-> 2026, month |-> 0, day |-> 1]

HolidayDates == {October1, December31, January1}

HolidayYears == {2025, 2026}

HolidayMethods == {"offline", "online", "hybrid"}

\* days.find((day) => day.date === dateStr): the first match, or NULL.
FindDay(days, dateStr) ==
    LET hits == {i \in 1..Len(days) : days[i].date = dateStr}
    IN  IF hits = {} THEN NULL
        ELSE days[CHOOSE i \in hits : \A j \in hits : i <= j]

\* Mutant of fetchHolidayYearFromApi: an entry exactly 12 hours old still
\* answers.
fetchHolidayYearFromApiInclusive(year, yearCache, now, down) ==
    IF /\ year \in DOMAIN yearCache
       /\ now - yearCache[year].fetchedAt <= ONLINE_YEAR_CACHE_DURATION
    THEN [ok |-> TRUE, days |-> yearCache[year].days, yearCache |-> yearCache,
          remote |-> FALSE]
    ELSE IF year \in down \/ year \notin DOMAIN api
    THEN [ok |-> FALSE, days |-> <<>>, yearCache |-> yearCache, remote |-> TRUE]
    ELSE [ok |-> TRUE, days |-> api[year],
          yearCache |-> MapSet(yearCache, year, [fetchedAt |-> now, days |-> api[year]]),
          remote |-> TRUE]

\* fetchHolidayYearFromApi at time now, the requests for the years in down
\* failing: the year's days from onlineYearCache while they are younger
\* than 12 hours, else from the API, remembered on success.  remote tells
\* whether the API was asked.
fetchHolidayYearFromApi(year, yearCache, now, down) ==
    IF /\ year \in DOMAIN yearCache
       /\ now - yearCache[year].fetchedAt < ONLINE_YEAR_CACHE_DURATION
    THEN [ok |-> TRUE, days |-> yearCache[year].days, yearCache |-> yearCache,
          remote |-> FALSE]
    ELSE IF year \in down \/ year \notin DOMAIN api
    THEN [ok |-> FALSE, days |-> <<>>, yearCache |-> yearCache, remote |-> TRUE]
    ELSE [ok |-> TRUE, days |-> api[year],
          yearCache |-> MapSet(yearCache, year, [fetchedAt |-> now, days |-> api[year]]),
          remote |-> TRUE]

\* Mutant of candidateYears: the adjacent year is never probed.
candidateYearsCurrentOnly(date) == <<date.year>>

\* The years whose tables checkHolidayOnline goes through, in order.
candidateYears(date) ==
    <<date.year>>
      \o (IF date.month = 11 THEN <<date.year + 1>> ELSE <<>>)
      \o (IF date.month = 0 THEN <<date.year - 1>> ELSE <<>>)

\* Mutant of OnlineOnFailure: the failure is answered with a normal day.
OnlineOnFailureNormalDay == NormalDay

\* The catch block of checkHolidayOnline: the error goes on to the caller.
OnlineOnFailure == Thrown("api")

\* The loop of checkHolidayOnline from candidate i on; probed collects the
\* years whose table was asked for, requested those among them that the
\* API was asked for, failed holds the year whose request failed.
RECURSIVE ProbeYears(_, _, _, _, _, _, _, _)
ProbeYears(years, i, dateStr, yearCache, now, down, probed, requested) ==
    IF i > Len(years)
    THEN [value |-> NormalDay, yearCache |-> yearCache, probed |-> probed,
          requested |-> requested, failed |-> <<>>]
    ELSE IF years[i] <= 0
    THEN ProbeYears(years, i + 1, dateStr, yearCache, now, down, probed, requested)
    ELSE LET f == fetchHolidayYearFromApi(years[i], yearCache, now, down)
             match == FindDay(f.days, dateStr)
             asked == IF f.remote THEN Append(requested, years[i]) ELSE requested
         IN  IF ~f.ok
             THEN [value |-> OnlineOnFailure, yearCache |-> f.yearCache,
                   probed |-> Append(probed, years[i]),
                   requested |-> asked, failed |-> <<years[i]>>]
             ELSE IF match # NULL
             THEN [value |-> [isHoliday |-> match.isOffDay,
                              isCompensationDay |-> ~match.isOffDay],
                   yearCache |-> f.yearCache, probed |-> Append(probed, years[i]),
                   requested |-> asked, failed |-> <<>>]
             ELSE ProbeYears(years, i + 1, dateStr, f.yearCache, now, down,
                             Append(probed, years[i]), asked)

checkHolidayOnline(date, yearCache, now, down) ==
    ProbeYears(candidateYears(date), 1, formatDate(date), yearCache, now, down,
               <<>>, <<>>)

\* The try block of checkHolidayOffline.
checkHolidayOfflineBody(date) ==
    IF chineseDays.module = "absent" THEN NormalDay
    ELSE IF chineseDays.module = "nofunctions" THEN Thrown("missing")
    ELSE IF chineseDays.module = "throws" THEN Thrown("lookup")
    ELSE [isHoliday |-> formatDate(date) \in chineseDays.holidays,
          isCompensationDay |-> formatDate(date) \in chineseDays.inLieu]

\* Mutant of checkHolidayOffline: the error is passed on.
checkHolidayOfflineRethrows(date) == checkHolidayOfflineBody(date)

checkHolidayOffline(date) ==
    LET r == checkHolidayOfflineBody(date)
    IN  IF IsThrown(r) THEN NormalDay ELSE r

\* Mutant of HybridOnFailure: a normal day without asking the package.
HybridOnFailureNormalDay(date) == NormalDay

\* The catch block of checkHolidayHybrid.
HybridOnFailure(date) == checkHolidayOffline(date)

\* Mutant of HybridCaches: the fallback's answer is cached as well.
HybridCachesAlways(online) == TRUE

\* Whether checkHolidayHybrid reaches its two cache writes, online being
\* what checkHolidayOnline gave.
HybridCaches(online) == ~IsThrown(online)

checkHolidayHybrid(date, now, down) ==
    LET dateStr == formatDate(date)
        timestamp == IF dateStr \in DOMAIN cacheTimestamp
                     THEN cacheTimestamp[dateStr] ELSE 0
    IN  IF dateStr \in DOMAIN holidayCache /\ now - timestamp < CACHE_DURATION
        THEN [value |-> holidayCache[dateStr], holidayCache |-> holidayCache,
              cacheTimestamp |-> cacheTimestamp, yearCache |-> onlineYearCache,
              path |-> "cache", probed |-> <<>>, requested |-> <<>>,
              failed |-> <<>>]
        ELSE LET cache == MapDelete(holidayCache, dateStr)
                 stamps == MapDelete(cacheTimestamp, dateStr)
                 online == checkHolidayOnline(date, onlineYearCache, now, down)
                 value == IF IsThrown(online.value) THEN HybridOnFailure(date)
                          ELSE online.value
             IN  [value |-> value,
                  holidayCache |-> IF HybridCaches(online.value)
                                   THEN MapSet(cache, dateStr, value) ELSE cache,
                  cacheTimestamp |-> IF HybridCaches(online.value)
                                     THEN MapSet(stamps, dateStr, now) ELSE stamps,
                  yearCache |-> online.yearCache,
                  path |-> IF IsThrown(online.value) THEN "offline" ELSE "online",
                  probed |-> online.probed, requested |-> online.requested,
                  failed |-> online.failed]

\* checkHoliday(date, method) at time now: its result, the three caches
\* after it, where the result came from and the year tables asked for.
checkHoliday(date, method, now, down) ==
    IF method = "offline"
    THEN [value |-> checkHolidayOffline(date), holidayCache |-> holidayCache,
          cacheTimestamp |-> cacheTimestamp, yearCache |-> onlineYearCache,
          path |-> "offline", probed |-> <<>>, requested |-> <<>>,
          failed |-> <<>>]
    ELSE IF method = "online"
    THEN LET online == checkHolidayOnline(date, onlineYearCache, now, down)
         IN  [value |-> online.value, holidayCache |-> holidayCache,
              cacheTimestamp |-> cacheTimestamp, yearCache |-> online.yearCache,
              path |-> "online", probed |-> online.probed,
              requested |-> online.requested, failed |-> online.failed]
    ELSE checkHolidayHybrid(date, now, down)

-----------------------------------------------------------------------------
(* Specification of checkHoliday: calls with any date, method and failing  *)
(* requests, time passing between them.                                    *)

\* A year's published table: each date is absent, a day off or a workday.
ApiEntries == {"absent", "off", "work"}

DateStrSeq == <<formatDate(October1), formatDate(December31), formatDate(January1)>>

TableOf(entries) ==
    LET present == SelectSeq(DateStrSeq, LAMBDA dateStr : entries[dateStr] # "absent")
    IN  [i \in 1..Len(present) |->
            [date |-> present[i], isOffDay |-> entries[present[i]] = "off"]]

\* The published tables: October 1 is a day off in the table of its year;
\* a date at the year boundary is one of the three in the table of its own
\* year (own) and one of the three in the table of the other year (other).
ApiTables ==
    {[year \in HolidayYears |->
        TableOf([dateStr \in {DateStrSeq[i] : i \in 1..3} |->
                    IF dateStr = formatDate(October1)
                    THEN (IF year = October1.year THEN "off" ELSE "absent")
                    ELSE IF dateStr[1] = year THEN own ELSE other])] :
        own \in ApiEntries, other \in ApiEntries}

\* require('chinese-days'): not installed, without isHoliday/isInLieu,
\* raising on a lookup, or answering from its data.
OfflinePackages ==
    {[module |-> m, holidays |-> {}, inLieu |-> {}] : m \in {"absent", "nofunctions", "throws"}}
      \cup {[module |-> "ok", holidays |-> {formatDate(October1), formatDate(January1)},
             inLieu |-> {formatDate(December31), formatDate(January1)}]}

InitHoliday ==
    /\ args = NULL
    /\ ret = NotCalled
    /\ CorePinned
    /\ RuntimePinned
    /\ holidayCache = <<>>
    /\ cacheTimestamp = <<>>
    /\ onlineYearCache = <<>>
    /\ clock = 0
    /\ api \in ApiTables
    /\ chineseDays \in OfflinePackages

CallCheckHoliday ==
    \E date \in HolidayDates, method \in HolidayMethods, down \in SUBSET HolidayYears :
        \E r \in {checkHoliday(date, method, clock, down)} :
            /\ args' = [date |-> date, method |-> method]
            /\ ret' = [called |-> TRUE, value |-> r.value, path |-> r.path,
                       probed |-> r.probed, failed |-> r.failed]
            /\ holidayCache' = r.holidayCache
            /\ cacheTimestamp' = r.cacheTimestamp
            /\ onlineYearCache' = r.yearCache
            /\ UNCHANGED <<coreVars, envVars, runVars, clock, api, chineseDays>>

ClockAdvances ==
    /\ clock + ClockStep <= MaxClock
    /\ clock' = clock + ClockStep
    /\ args' = NULL
    /\ ret' = NotCalled
    /\ UNCHANGED <<coreVars, envVars, runVars, holidayCache, cacheTimestamp,
                   onlineYearCache, api, chineseDays>>

NextHoliday == CallCheckHoliday \/ ClockAdvances

SpecHoliday == InitHoliday /\ [][NextHoliday]_vars

\* The last call was checkHoliday(date, 'hybrid') and found no valid cache
\* entry and a failing online lookup.
HybridOnlineFailed ==
    ret.called /\ args.method = "hybrid" /\ ret.path = "offline"

\* C15: a hybrid lookup whose online lookup fails returns what the offline
\* lookup returns for that date, and a hybrid lookup never raises.
Thm_C15_HybridFallsBackToOffline ==
    /\ HybridOnlineFailed => ret.value = checkHolidayOffline(args.date)
    /\ (ret.called /\ args.method = "hybrid") => ~IsThrown(ret.value)

\* The fallback answered with a classification only the package knows.
Wit_C15_FallbackAnswersFromPackage ==
    /\ HybridOnlineFailed
    /\ ret.probed # <<>>
    /\ chineseDays.module = "ok"
    /\ ret.value = [isHoliday |-> TRUE, isCompensationDay |-> TRUE]

\* This step is a call checkHoliday(date, 'hybrid').
HybridCallStep == ret'.called /\ args'.method = "hybrid"

\* This step puts an entry for dateStr into the per-day cache, or replaces
\* or restamps the one there.
CacheEntryMade(dateStr) ==
    /\ dateStr \in DOMAIN holidayCache'
    /\ \/ dateStr \notin DOMAIN holidayCache
       \/ holidayCache'[dateStr] # holidayCache[dateStr]
       \/ cacheTimestamp'[dateStr] # cacheTimestamp[dateStr]

\* A per-day cache entry is made only by a hybrid lookup of that date whose
\* online lookup succeeded, from its result and stamped with the time.
EntryOnlyFromOnlineSuccess ==
    \A dateStr \in DOMAIN holidayCache' :
        CacheEntryMade(dateStr) =>
            /\ HybridCallStep
            /\ formatDate(args'.date) = dateStr
            /\ ret'.path = "online"
            /\ ~IsThrown(ret'.value)
            /\ holidayCache'[dateStr] = ret'.value
            /\ cacheTimestamp'[dateStr] = clock

\* A hybrid lookup whose online lookup failed leaves both maps as they were.
FailedLookupLeavesMaps ==
    (HybridCallStep /\ ret'.path = "offline") =>
        /\ holidayCache' = holidayCache
        /\ cacheTimestamp' = cacheTimestamp

\* A hybrid lookup whose online lookup failed leaves both maps without an
\* entry for its date and with the entries of the other dates as they were.
FailedLookupLeavesNoEntry ==
    (HybridCallStep /\ ret'.path = "offline") =>
        LET others == DOMAIN holidayCache \ {formatDate(args'.date)}
        IN  /\ holidayCache' = [dateStr \in others |-> holidayCache[dateStr]]
            /\ cacheTimestamp' = [dateStr \in others |-> cacheTimestamp[dateStr]]

\* A hybrid lookup of a date without an entry asks for a year table.
NoEntryTriesOnline ==
    (HybridCallStep /\ formatDate(args'.date) \notin DOMAIN holidayCache) =>
        ret'.path # "cache" /\ ret'.probed # <<>>

\* A hybrid lookup of a date whose entry is younger than 24 hours returns
\* the entry, asks for no table and changes no cache.
YoungEntryAnswers ==
    (/\ HybridCallStep
     /\ formatDate(args'.date) \in DOMAIN holidayCache
     /\ clock - cacheTimestamp[formatDate(args'.date)] < CACHE_DURATION) =>
        /\ ret'.value = holidayCache[formatDate(args'.date)]
        /\ ret'.path = "cache"
        /\ ret'.probed = <<>>
        /\ UNCHANGED <<holidayCache, cacheTimestamp, onlineYearCache>>

\* C16 as stated: entries come only from successful online lookups, a
\* failed online lookup leaves holidayCache and cacheTimestamp unchanged,
\* and an entry younger than 24 hours answers without any lookup.
Cex_C16_FailedLookupChangesNothing ==
    [][EntryOnlyFromOnlineSuccess /\ FailedLookupLeavesMaps /\ YoungEntryAnswers]_vars

\* C16, amended: entries come only from successful online lookups; a failed
\* online lookup leaves no entry for its date (it removes an expired one)
\* and does not touch the other dates, so the next hybrid lookup of that
\* date goes online again; an entry younger than 24 hours answers without
\* any lookup.
Thm_C16_FailedLookupLeavesNoEntry ==
    [][/\ EntryOnlyFromOnlineSuccess
       /\ FailedLookupLeavesNoEntry
       /\ NoEntryTriesOnline
       /\ YoungEntryAnswers]_vars

\* A failed online lookup at a time when an entry of the first hour has
\* expired: its date has no entry, another date still has its old one.
Wit_C16_FailedAfterExpiry ==
    /\ HybridOnlineFailed
    /\ clock >= CACHE_DURATION
    /\ formatDate(args.date) \notin DOMAIN holidayCache
    /\ \E dateStr \in DOMAIN holidayCache : cacheTimestamp[dateStr] = 0

\* C17: an offline lookup never raises, and returns "no holiday, no
\* compensation day" when the package is absent, lacks isHoliday or
\* isInLieu, or raises on the lookup.
Thm_C17_OfflineFailOpen ==
    (ret.called /\ args.method = "offline") =>
        /\ ~IsThrown(ret.value)
        /\ chineseDays.module \in {"absent", "nofunctions", "throws"} =>
              ret.value = [isHoliday |-> FALSE, isCompensationDay |-> FALSE]

\* An offline lookup with a package that lacks the functions.
Wit_C17_PackageWithoutFunctions ==
    /\ ret.called
    /\ args.method = "offline"
    /\ chineseDays.module = "nofunctions"
    /\ ret.value = [isHoliday |-> FALSE, isCompensationDay |-> FALSE]

\* The year after or before the date's own, on the other side of the year
\* boundary next to it.
AdjacentYear(date) == IF date.month = 11 THEN date.year + 1 ELSE date.year - 1

\* What a published day says: a day off is a holiday, any other listed day
\* a compensation workday.
Published(day) == [isHoliday |-> day.isOffDay, isCompensationDay |-> ~day.isOffDay]

\* C19: an online lookup of December 31 or January 1 that raises no error
\* has asked for the table of the date's year and, when the date is not in
\* it, for the table of the adjacent year; the first of the two tables that
\* lists the date decides; December 31 listed only in next year's table as
\* not a day off is a compensation day and no holiday.
Thm_C19_YearBoundaryProbe ==
    (/\ ret.called
     /\ args.method = "online"
     /\ args.date \in {December31, January1}
     /\ ~IsThrown(ret.value)) =>
        LET dateStr == formatDate(args.date)
            own == args.date.year
            adjacent == AdjacentYear(args.date)
            inOwn == FindDay(api[own], dateStr)
            inAdjacent == FindDay(api[adjacent], dateStr)
        IN  /\ inOwn # NULL => ret.probed = <<own>> /\ ret.value = Published(inOwn)
            /\ inOwn = NULL =>
                  /\ ret.probed = <<own, adjacent>>
                  /\ inAdjacent # NULL => ret.value = Published(inAdjacent)
                  /\ inAdjacent = NULL =>
                        ret.value = [isHoliday |-> FALSE, isCompensationDay |-> FALSE]
            /\ (/\ args.date = December31
                /\ inOwn = NULL
                /\ inAdjacent # NULL
                /\ ~inAdjacent.isOffDay) =>
                  ret.value = [isHoliday |-> FALSE, isCompensationDay |-> TRUE]

\* December 31, 2025 listed only in the table of 2026, as a workday.
Wit_C19_December31InNextYearsTable ==
    /\ ret.called
    /\ args.method = "online"
    /\ args.date = December31
    /\ FindDay(api[2025], formatDate(December31)) = NULL
    /\ FindDay(api[2026], formatDate(December31)) # NULL
    /\ ret.probed = <<2025, 2026>>
    /\ ret.value = [isHoliday |-> FALSE, isCompensationDay |-> TRUE]

-----------------------------------------------------------------------------
(* Specification of setGroupMute and sendGroupMessage over all bounded     *)
(* lists of bots.  A bot is known by its position in ctx.bots; the error a *)
(* bot throws is known by the bot that threw it; answers says, for each    *)
(* bot, whether its call succeeds or throws.                               *)

\* ctx.bots.filter((b) => b.platform === 'onebot'), as positions in ctx.bots.
OnebotSids(allBots) ==
    SelectSeq([i \in 1..Len(allBots) |-> i], LAMBDA i : allBots[i] = "onebot")

\* Mutant of NextLastError: the first error is kept.
KeepFirstError(lastError, error) == IF lastError = NULL THEN error ELSE lastError

\* lastError = error
NextLastError(lastError, error) == error

\* The for-of loop over the onebot bots from position i on and the throw
\* after it (lastError, or a new Error, written as the error of bot 0, when
\* there is none): the result, the bots called in order, and the bot whose
\* call succeeded (0 when none did).
RECURSIVE TryBackends(_, _, _, _, _)
TryBackends(sids, answers, i, called, lastError) ==
    IF i > Len(sids)
    THEN [value |-> Thrown(IF lastError = NULL THEN [bot |-> 0] ELSE lastError),
          called |-> called, by |-> 0]
    ELSE IF answers[sids[i]] = "ok"
    THEN [value |-> NULL, called |-> Append(called, sids[i]), by |-> sids[i]]
    ELSE TryBackends(sids, answers, i + 1, Append(called, sids[i]),
                     NextLastError(lastError, [bot |-> sids[i]]))

setGroupMute(allBots, guildId, answers) ==
    IF IsNaNId(guildId) THEN [value |-> NULL, called |-> <<>>, by |-> 0]
    ELSE IF Len(OnebotSids(allBots)) = 0 THEN [value |-> NULL, called |-> <<>>, by |-> 0]
    ELSE TryBackends(OnebotSids(allBots), answers, 1, <<>>, NULL)

sendGroupMessage(allBots, guildId, answers) ==
    IF IsNaNId(guildId) THEN [value |-> NULL, called |-> <<>>, by |-> 0]
    ELSE IF Len(OnebotSids(allBots)) = 0 THEN [value |-> NULL, called |-> <<>>, by |-> 0]
    ELSE TryBackends(OnebotSids(allBots), answers, 1, <<>>, NULL)

InitBackends ==
    /\ args \in [fn : {"setGroupMute", "sendGroupMessage"},
                 guildId : {"100", "abc"},
                 enable : BOOLEAN,
                 answers : [1..MaxBots -> {"ok", "throws"}]]
    /\ ret = NotCalled
    /\ CorePinned
    /\ HolidayPinned
    /\ bots \in BotLists
    /\ db = [g \in Guilds |-> NULL]
    /\ real = [g \in Guilds |-> FALSE]
    /\ wall = Monday0900
    /\ calendar = NormalDay
    /\ outage = FALSE
    /\ task = [t \in Tasks |-> IdleTask]
    /\ last = [g \in Guilds |-> NULL]

CallSetGroupMute ==
    /\ ~ret.called
    /\ args.fn = "setGroupMute"
    /\ \E r \in {setGroupMute(bots, args.guildId, args.answers)} :
          /\ ret' = [called |-> TRUE, value |-> r.value, calls |-> r.called, by |-> r.by]
          /\ real' = IF r.by # 0 THEN [real EXCEPT ![args.guildId] = args.enable] ELSE real
    /\ UNCHANGED <<args, coreVars, holidayVars, bots, db, wall, calendar, outage, runVars>>

CallSendGroupMessage ==
    /\ ~ret.called
    /\ args.fn = "sendGroupMessage"
    /\ \E r \in {sendGroupMessage(bots, args.guildId, args.answers)} :
          ret' = [called |-> TRUE, value |-> r.value, calls |-> r.called, by |-> r.by]
    /\ UNCHANGED <<args, coreVars, holidayVars, envVars, runVars>>

NextBackends == CallSetGroupMute \/ CallSendGroupMessage

SpecBackends == InitBackends /\ [][NextBackends]_vars

\* C20: a call of setGroupMute or sendGroupMessage that reaches the
\* backends calls the onebot bots in the order of ctx.bots; it returns at
\* the first bot that succeeds, having called the bots before it and none
\* after it; when every bot throws it has called them all and raises the
\* error of the last one.
Thm_C20_FirstSuccessElseLastError ==
    (ret.called /\ ~IsNaNId(args.guildId) /\ Len(OnebotSids(bots)) > 0) =>
        LET sids == OnebotSids(bots)
            succeed == {i \in 1..Len(sids) : args.answers[sids[i]] = "ok"}
        IN  /\ \A i \in 1..Len(sids) - 1 : sids[i] < sids[i + 1]
            /\ succeed # {} =>
                  LET first == CHOOSE i \in succeed : \A j \in succeed : i <= j
                  IN  /\ ret.value = NULL
                      /\ ret.by = sids[first]
                      /\ ret.calls = SubSeq(sids, 1, first)
            /\ succeed = {} =>
                  /\ ret.calls = sids
                  /\ ret.by = 0
                  /\ ret.value = Thrown([bot |-> sids[Len(sids)]])

\* Two backends failed one after the other, and the call raised the error
\* of the second.
Wit_C20_AllFailLastErrorRaised ==
    /\ ret.called
    /\ args.fn = "setGroupMute"
    /\ Len(ret.calls) >= 2
    /\ ret.by = 0
    /\ ret.value = Thrown([bot |-> ret.calls[Len(ret.calls)]])

-----------------------------------------------------------------------------
(* Further properties of reconcileMuteState.                               *)

\* C21: when sendGroupMessage failed on every backend after the row was
\* written, the reconciliation still ends as a transition (the error stays
\* inside reconcileMuteState), the row is the new state, and the next
\* reconciliation of the group with the same expected state and the row
\* untouched calls setGroupMute no more.
Thm_C21_NotificationBestEffort ==
    /\ \A t \in Returned2Caller :
          LET o == task[t].obs
          IN  o.error = "notify" =>
                /\ o.outcome = "transitioned"
                /\ o.writes = 1
                /\ o.notifs = 0
                /\ o.after # NULL
                /\ o.after.isMuted = o.exp
                /\ db[o.guild] = o.after
    /\ \A t \in Reading :
          LET o == task[t].obs
          IN  (FollowsSame(o) /\ last[o.guild].error = "notify") =>
                /\ o.invoked = 0
                /\ o.outcome = "unchanged"

\* The tick after a notification that failed on two backends finds the
\* row aligned.
Wit_C21_FailedNotificationThenAligned ==
    \E t \in Returned2Caller :
        LET o == task[t].obs
        IN  /\ FollowsSame(o)
            /\ last[o.guild].error = "notify"
            /\ last[o.guild].acted
            /\ o.invoked = 0
            /\ Len(OnebotBots(bots)) = 2

-----------------------------------------------------------------------------
(* Specification of the heartbeat and the manual check with the            *)
(* configuration reloaded at any moment (ctx.on('config') ->               *)
(* MuteCore.updateConfig), the instant and the day held fixed.             *)

GroupConfig200Standard ==
    [guildId |-> "200", enableHoliday |-> TRUE, holidayMuteGroup |-> "holiday",
     compensationMuteGroup |-> "workday", defaultWeekGroup |-> "standard"]

\* The week group 'standard' edited: no muting on Mondays.
WeekGroupRelaxed ==
    [WeekGroupStandard EXCEPT !.weekdays = [@ EXCEPT !.monday = "holiday"]]

\* Two groups on the week group 'standard'; the same with the week group
\* edited; the same with group 200 removed.
ReloadConfigs ==
    LET both == MainConfig("offline", <<GroupConfig100, GroupConfig200Standard>>)
    IN  {both,
         [both EXCEPT !.weekGroups = <<WeekGroupRelaxed>>],
         [both EXCEPT !.groupConfigs = <<GroupConfig100>>]}

\* updateConfig(config): this.config = config; this.buildMaps().  The call
\* is synchronous: no other code runs between its statements.
UpdateConfig ==
    /\ \E newConfig \in ReloadConfigs \ {config} :
          /\ config' = newConfig
          /\ muteGroupMap' = buildMaps(newConfig).muteGroupMap
          /\ weekGroupMap' = buildMaps(newConfig).weekGroupMap
          /\ groupConfigMap' = buildMaps(newConfig).groupConfigMap
    /\ UNCHANGED <<args, ret, heartbeatInterval, holidayVars, envVars, runVars>>

InitReload ==
    /\ args = NULL
    /\ ret = NotCalled
    /\ config \in ReloadConfigs
    /\ muteGroupMap = buildMaps(config).muteGroupMap
    /\ weekGroupMap = buildMaps(config).weekGroupMap
    /\ groupConfigMap = buildMaps(config).groupConfigMap
    /\ heartbeatInterval = "set"
    /\ HolidayPinned
    /\ bots \in {<<>>, <<"onebot">>}
    /\ db = [g \in Guilds |-> NULL]
    /\ real = [g \in Guilds |-> FALSE]
    /\ wall = Monday0900
    /\ calendar = NormalDay
    /\ outage = FALSE
    /\ task = [t \in Tasks |-> IdleTask]
    /\ last = [g \in Guilds |-> NULL]

NextReload ==
    \/ TaskStep
    \/ \E t \in Tasks : StartCheckGroupNow(t)
    \/ UpdateConfig
    \/ OutageBegins
    \/ OutageEnds

SpecReload == InitReload /\ [][NextReload]_vars

\* C22 as stated: a heartbeat run resolves every one of its entries as the
\* index it started with resolves it: the expected state it reconciles is
\* the one that index gives, and it skips exactly the entries for which
\* that index gives none.
Cex_C22_TickKeepsItsSnapshot ==
    \A t \in Tasks :
        LET rec == task[t]
        IN  (rec.kind = "run" /\ rec.pc # "idle") =>
              /\ rec.pc # "holiday" => rec.expected = rec.snapshot[rec.i][rec.holiday]
              /\ \A k \in 1..Len(rec.visited) :
                    (rec.visited[k].outcome = "config") <=>
                        (rec.snapshot[k][calendar] = NULL)

-----------------------------------------------------------------------------
(* Specification of the timer: setInterval(() => muteCore.run(), 60000)    *)
(* calls run every minute whether or not the run before has returned, so   *)
(* a run that stays at an await for a minute meets the next one.  Two runs *)
(* at a time are modelled; the instant and the day are held fixed.         *)

\* The calls of run() that can be in progress together.
Fires == {"heartbeat", "next"}

\* A step of the call in slot t.
StepOf(t) ==
    \/ StartRun(t)
    \/ HolidayReturns(t)
    \/ GetStateReturns(t)
    \/ BotMuteOk(t)
    \/ BotMuteFails(t)
    \/ UpdReadReturns(t)
    \/ UpdWriteOk(t)
    \/ UpdWriteFails(t)
    \/ BotSendOk(t)
    \/ BotSendFails(t)
    \/ ResumeRun(t)

InitOverlap ==
    /\ args = NULL
    /\ ret = NotCalled
    /\ config = MainConfig("hybrid", <<GroupConfig100>>)
    /\ muteGroupMap = buildMaps(config).muteGroupMap
    /\ weekGroupMap = buildMaps(config).weekGroupMap
    /\ groupConfigMap = buildMaps(config).groupConfigMap
    /\ heartbeatInterval = "set"
    /\ HolidayPinned
    /\ bots \in {<<>>, <<"onebot">>}
    /\ db = [g \in Guilds |-> NULL]
    /\ real = [g \in Guilds |-> FALSE]
    /\ wall = Monday0900
    /\ calendar = NormalDay
    /\ outage = FALSE
    /\ task = [t \in Fires |-> IdleTask]
    /\ last = [g \in Guilds |-> NULL]

NextOverlap ==
    \/ \E t \in Fires : StepOf(t)
    \/ OutageBegins
    \/ OutageEnds

SpecOverlap == InitOverlap /\ [][NextOverlap]_vars

\* C23 as stated: a run of the heartbeat never starts while an earlier one
\* is in progress, so at most one run, and at most one reconciliation,
\* is in progress at any moment.
Cex_C23_RunsNeverOverlap ==
    Cardinality({t \in DOMAIN task : task[t].pc # "idle"}) <= 1

\* The reconciliation of o follows, for the same group and with the same
\* expected state, one that ended in a failed write of the row.
FollowsFailedWrite(o) ==
    /\ last[o.guild] # NULL
    /\ last[o.guild].error = "persist"
    /\ last[o.guild].exp = o.exp

\* C24: when updateMuteState failed after setGroupMute, the reconciliation
\* ends inside reconcileMuteState as a logged failure with the row as it
\* was read and the state set on the platform left in place; the next
\* reconciliation of the group with the same expected state calls
\* setGroupMute again, and when its write succeeds the row's isMuted is the
\* expected one.
Thm_C24_WriteFailureRetried ==
    /\ \A t \in Returned2Caller :
          LET o == task[t].obs
          IN  o.error = "persist" =>
                /\ o.outcome = "failed"
                /\ o.invoked = 1
                /\ o.writes = 0
                /\ o.notifs = 0
                /\ o.after = o.before
                /\ db[o.guild] = o.before
                /\ o.acted => real[o.guild] = o.exp
    /\ \A t \in Reading :
          LET o == task[t].obs
          IN  FollowsFailedWrite(o) =>
                /\ o.invoked = 1
                /\ (task[t].pc = "reconciled" /\ o.outcome = "transitioned") =>
                      /\ o.writes = 1
                      /\ db[o.guild] # NULL
                      /\ db[o.guild].isMuted = o.exp

\* A write failed after the group was muted on the platform; the next tick
\* muted it again and wrote the row.
Wit_C24_SecondTickWrites ==
    \E t \in Returned2Caller :
        LET o == task[t].obs
        IN  /\ FollowsFailedWrite(o)
            /\ last[o.guild].acted
            /\ o.acted
            /\ o.outcome = "transitioned"
            /\ db[o.guild] # NULL
            /\ db[o.guild].isMuted = o.exp

\* The entry the call in slot t is at falls, at the call's instant, on a
\* weekday its week group maps to the empty name, and neither the holiday
\* nor the compensation override applies.
OnEmptyWeekday(t) ==
    LET rec == task[t]
        groupConfig == rec.list[rec.i]
        weekGroup == getWeekGroup(groupConfig.defaultWeekGroup)
    IN  /\ weekGroup # NULL
        /\ weekGroup.weekdays[getDayOfWeek(rec.now)] = ""
        /\ ~(/\ groupConfig.enableHoliday
             /\ rec.holiday.isHoliday \/ rec.holiday.isCompensationDay)

\* C25 as stated: on a weekday mapped to the empty rule-group name, with no
\* override applying, the heartbeat never calls setGroupMute with enable =
\* true for the group.
Cex_C25_EmptyWeekdayNeverMutes ==
    \A t \in Tasks :
        LET rec == task[t]
        IN  (rec.kind = "run" /\ rec.pc \notin {"idle", "holiday"} /\ OnEmptyWeekday(t)) =>
                ~(rec.obs.invoked > 0 /\ rec.obs.exp)

\* A reconciliation of group g is in progress whose setGroupMute call was
\* carried out by a backend.
ActedOn(g) ==
    \E t \in DOMAIN task :
        task[t].obs # NULL /\ task[t].obs.guild = g /\ task[t].obs.acted

\* This step ends a write of updateMuteState in a reconciliation of group g.
TransitionOf(g) ==
    \E t \in DOMAIN task :
        /\ task[t].pc = "updWrite"
        /\ task[t].obs.guild = g
        /\ task'[t].obs # NULL
        /\ task'[t].obs.outcome = "transitioned"

\* C26 as stated: a row is created only in a reconciliation of its group
\* whose external action succeeded, changes only in a transition, and no
\* step of the heartbeat, the manual check or a reload deletes it.
Cex_C26_RowLifecycle ==
    [][\A g \in Guilds :
          /\ (db[g] = NULL /\ db'[g] # NULL) => (ActedOn(g) /\ TransitionOf(g))
          /\ (db[g] # NULL /\ db'[g] # db[g]) => TransitionOf(g)
          /\ db[g] # NULL => db'[g] # NULL]_vars

\* The parts of C26 that hold: a row appears or changes only in a write of
\* a reconciliation of its group, and is never deleted.
RowWrittenOnlyInTransitions ==
    [][\A g \in Guilds :
          /\ db'[g] # db[g] => TransitionOf(g)
          /\ db[g] # NULL => db'[g] # NULL]_vars

\* In the reconciliation of slot t: a message was sent only after the row
\* was written, for a rule group that asks for notification, and once.
NotifiedAfterWrite(t) ==
    LET rec == task[t]
        o == rec.obs
    IN  /\ o.notifs <= 1
        /\ o.outcome \in {"unchanged", "failed"} => o.notifs = 0
        /\ o.notifs > 0 =>
              /\ o.outcome = "transitioned"
              /\ o.writes = 1
              /\ getMuteGroup(rec.expected.muteGroupName) # NULL
              /\ getMuteGroup(rec.expected.muteGroupName).sendNotification

\* C27 as stated: a reconciliation sends a message only if its action
\* succeeded and its row was written and the rule group of the expected
\* state has sendNotification true; an unchanged or failed reconciliation
\* sends none; at most one message is sent.
Cex_C27_NotifyOnlyOnTransition ==
    \A t \in Tasks :
        task[t].obs # NULL =>
            /\ NotifiedAfterWrite(t)
            /\ task[t].obs.notifs > 0 => task[t].obs.acted

\* The part of C27 that holds whether or not a backend carried out the
\* action.
NotifyOnlyAfterWrite ==
    \A t \in Tasks : task[t].obs # NULL => NotifiedAfterWrite(t)

-----------------------------------------------------------------------------
(* getExpectedState: rules of one group with the same time of day.         *)

\* The time of day the result is taken at: the greatest rule time that is
\* <= now, or the greatest rule time of all when no rule is due yet.
SelectedMinutes ==
    LET due == {i \in 1..Len(ArgRules) : RuleMinutes(i) <= ArgNowMinutes}
        from == IF due # {} THEN due ELSE 1..Len(ArgRules)
    IN  CHOOSE m \in {RuleMinutes(i) : i \in from} :
            \A i \in from : RuleMinutes(i) <= m

\* The rules of the configured list at the selected time of day.
RulesAtSelected == {i \in 1..Len(ArgRules) : RuleMinutes(i) = SelectedMinutes}

LastAtSelected == CHOOSE i \in RulesAtSelected : \A j \in RulesAtSelected : j <= i

\* C28: when several rules of the group have the selected time of day (the
\* greatest time <= now, or the greatest time overall in the lookback
\* case), the result reports the one that comes last in the configured
\* rule list.
Thm_C28_LastConfiguredWinsTie ==
    ret.called =>
        /\ ~IsThrown(ret.value)
        /\ ResultIsRule(LastAtSelected)

\* Two rules at the due time that disagree, the muting one configured last,
\* and a later rule in front of them in the list.
Wit_C28_TieAtDueTime ==
    /\ ret.called
    /\ Len(ArgRules) = 3
    /\ RuleMinutes(1) > ArgNowMinutes
    /\ RuleMinutes(2) = RuleMinutes(3)
    /\ RuleMinutes(3) <= ArgNowMinutes
    /\ ~ArgRules[2].isMuted
    /\ ArgRules[3].isMuted
    /\ ret.value.isMuted
    /\ ~ret.value.isFromPreviousDay

-----------------------------------------------------------------------------
(* checkHoliday(date, 'online'): a failing request.                        *)

\* This step is a call checkHoliday(date, 'online').
OnlineCallStep == ret'.called /\ args'.method = "online"

\* The entry of onlineYearCache for year is after the step what it was
\* before it.
YearEntryKept(year) ==
    IF year \in DOMAIN onlineYearCache
    THEN year \in DOMAIN onlineYearCache' /\ onlineYearCache'[year] = onlineYearCache[year]
    ELSE year \notin DOMAIN onlineYearCache'

FailedOnlineLookup ==
    (OnlineCallStep /\ ret'.failed # <<>>) =>
        /\ IsThrown(ret'.value)
        /\ YearEntryKept(ret'.failed[1])
        /\ holidayCache' = holidayCache
        /\ cacheTimestamp' = cacheTimestamp

\* C29: when the request for the table of a probed year fails,
\* checkHoliday(date, 'online') raises to its caller and returns no
\* classification, writes no entry for that year into onlineYearCache and
\* none into the per-day cache.
Thm_C29_OnlineRaisesOnFailure == [][FailedOnlineLookup]_vars

\* An online lookup of December 31 raised on the second candidate year: the
\* table of the date's own year was fetched and remembered, the request for
\* the next year's table failed and left no entry.
Wit_C29_SecondYearFailed ==
    /\ ret.called
    /\ args.method = "online"
    /\ args.date = December31
    /\ IsThrown(ret.value)
    /\ ret.probed = <<December31.year, December31.year + 1>>
    /\ ret.failed = <<December31.year + 1>>
    /\ December31.year \in DOMAIN onlineYearCache
    /\ December31.year + 1 \notin DOMAIN onlineYearCache

-----------------------------------------------------------------------------
(* Specification of the per-year cache: online lookups with any date and   *)
(* failing requests, time passing in steps shorter than the cache's        *)
(* lifetime, the API publishing new tables.                                *)

YearClockStep == 6     \* hours between two instants of this specification
MaxYearClock  == 18    \* last instant of this specification

InitYearCache ==
    /\ args = NULL
    /\ ret = NotCalled
    /\ CorePinned
    /\ RuntimePinned
    /\ holidayCache = <<>>
    /\ cacheTimestamp = <<>>
    /\ onlineYearCache = <<>>
    /\ clock = 0
    /\ api \in ApiTables
    /\ chineseDays = [module |-> "absent", holidays |-> {}, inLieu |-> {}]

CallCheckHolidayOnline ==
    \E date \in HolidayDates, down \in SUBSET HolidayYears :
        \E r \in {checkHoliday(date, "online", clock, down)} :
            /\ args' = [date |-> date, method |-> "online"]
            /\ ret' = [called |-> TRUE, value |-> r.value, path |-> r.path,
                       probed |-> r.probed, failed |-> r.failed,
                       requested |-> r.requested]
            /\ holidayCache' = r.holidayCache
            /\ cacheTimestamp' = r.cacheTimestamp
            /\ onlineYearCache' = r.yearCache
            /\ UNCHANGED <<coreVars, envVars, runVars, clock, api, chineseDays>>

YearClockAdvances ==
    /\ clock + YearClockStep <= MaxYearClock
    /\ clock' = clock + YearClockStep
    /\ args' = NULL
    /\ ret' = NotCalled
    /\ UNCHANGED <<coreVars, envVars, runVars, holidayCache, cacheTimestamp,
                   onlineYearCache, api, chineseDays>>

\* The API publishes other tables.
ApiRepublishes ==
    /\ api' \in ApiTables \ {api}
    /\ args' = NULL
    /\ ret' = NotCalled
    /\ UNCHANGED <<coreVars, envVars, runVars, holidayCache, cacheTimestamp,
                   onlineYearCache, clock, chineseDays>>

NextYearCache == CallCheckHolidayOnline \/ YearClockAdvances \/ ApiRepublishes

SpecYearCache == InitYearCache /\ [][NextYearCache]_vars

Seq2Set(seq) == {seq[i] : i \in 1..Len(seq)}

\* Before the step onlineYearCache holds an entry for year that is younger
\* than 12 hours.
YoungYearEntry(year) ==
    /\ year \in DOMAIN onlineYearCache
    /\ clock - onlineYearCache[year].fetchedAt < ONLINE_YEAR_CACHE_DURATION

\* What a table says about a date: its classification, NULL without an
\* entry for it.
TableAnswer(days, dateStr) ==
    LET match == FindDay(days, dateStr)
    IN  IF match = NULL THEN NULL
        ELSE [isHoliday |-> match.isOffDay, isCompensationDay |-> ~match.isOffDay]

\* The lookup of this step answered for year from the entry it found: no
\* request for it, the entry kept, and the answer, when this year gave it,
\* the one of the entry's table.
AnsweredFromYearCache(year) ==
    /\ year \notin Seq2Set(ret'.requested)
    /\ YearEntryKept(year)
    /\ year = ret'.probed[Len(ret'.probed)] =>
          LET answer == TableAnswer(onlineYearCache[year].days, formatDate(args'.date))
          IN  ret'.value = IF answer = NULL THEN NormalDay ELSE answer

\* The lookup of this step asked the API for year: on success the entry is
\* the table published now, stamped with the time; on failure the entry is
\* what it was.
RefreshedYear(year) ==
    /\ year \in Seq2Set(ret'.requested)
    /\ IF ret'.failed = <<year>>
       THEN YearEntryKept(year)
       ELSE /\ year \in DOMAIN onlineYearCache'
            /\ onlineYearCache'[year] = [fetchedAt |-> clock, days |-> api[year]]

YearCacheStep ==
    OnlineCallStep =>
        \A year \in Seq2Set(ret'.probed) :
            IF YoungYearEntry(year) THEN AnsweredFromYearCache(year)
            ELSE RefreshedYear(year)

\* C30: a lookup needing a year whose table was fetched less than 12 hours
\* ago is answered from onlineYearCache with no remote request; once the
\* entry is 12 hours old or older the lookup issues a remote request and,
\* on success, replaces the entry; a failed refresh leaves the old entry in
\* place.
Thm_C30_YearCacheTwelveHours == [][YearCacheStep]_vars

\* October 1 was looked up six hours after its year's table was fetched and
\* after the API had published another table: no request was made and the
\* older table stayed in the cache.
Wit_C30_AnsweredFromSixHourOldEntry ==
    /\ ret.called
    /\ args.date = October1
    /\ ret.probed = <<October1.year>>
    /\ ret.requested = <<>>
    /\ October1.year \in DOMAIN onlineYearCache
    /\ clock - onlineYearCache[October1.year].fetchedAt = YearClockStep
    /\ onlineYearCache[October1.year].days # api[October1.year]

-----------------------------------------------------------------------------
(* Specification of concurrent hybrid lookups of one date: each lookup     *)
(* runs up to its pending request, the requests return in any order, time  *)
(* passes and the API publishes new tables in between.                     *)

Lookups == {"a", "b"}

\* A lookup at rest.  removed tells that the lookup deleted an entry when it
\* began; overlapped that another lookup stored an entry while this one was
\* waiting for its request.
IdleLookup ==
    [pc |-> "idle", i |-> 0, value |-> NULL, path |-> "none",
     removed |-> FALSE, overlapped |-> FALSE]

RaceDateStr == formatDate(args.date)

RaceYears == candidateYears(args.date)

\* The end of checkHolidayHybrid for lookup l, online being what
\* checkHolidayOnline gave: both maps written on success, the offline
\* answer on failure.
FinishHybrid(l, online, cache, stamps, removed) ==
    LET value == IF IsThrown(online) THEN HybridOnFailure(args.date) ELSE online
        stores == HybridCaches(online)
    IN  /\ holidayCache' = IF stores THEN MapSet(cache, RaceDateStr, value) ELSE cache
        /\ cacheTimestamp' = IF stores THEN MapSet(stamps, RaceDateStr, clock) ELSE stamps
        /\ ret' = IF IsThrown(online) THEN ret
                  ELSE [ret EXCEPT !.online = @ \cup {online}]
        /\ task' = [m \in Lookups |->
                      IF m = l
                      THEN [pc |-> "done", i |-> 0, value |-> value,
                            path |-> IF IsThrown(online) THEN "offline" ELSE "online",
                            removed |-> removed, overlapped |-> task[l].overlapped]
                      ELSE IF stores /\ task[m].pc = "fetching"
                      THEN [task[m] EXCEPT !.overlapped = TRUE]
                      ELSE task[m]]

\* checkHolidayOnline of lookup l from candidate year i on, up to its next
\* await: the years with a young entry in yearCache are answered at once;
\* at the first year without one the request goes out and the lookup is
\* suspended; without such a year the lookup ends.
ResumeOnline(l, i, yearCache, cache, stamps, removed) ==
    \E p \in {ProbeYears(RaceYears, i, RaceDateStr, yearCache, clock,
                         HolidayYears, <<>>, <<>>)} :
        /\ onlineYearCache' = yearCache
        /\ IF p.failed # <<>>
           THEN /\ task' = [task EXCEPT ![l] =
                              [pc |-> "fetching",
                               i |-> CHOOSE k \in 1..Len(RaceYears) :
                                        RaceYears[k] = p.failed[1],
                               value |-> NULL, path |-> "none",
                               removed |-> removed, overlapped |-> @.overlapped]]
                /\ holidayCache' = cache
                /\ cacheTimestamp' = stamps
                /\ ret' = ret
           ELSE FinishHybrid(l, p.value, cache, stamps, removed)

\* checkHolidayHybrid is called: the cached answer while the entry is
\* younger than 24 hours; else an expired entry is deleted and the online
\* lookup starts.
BeginHybrid(l) ==
    /\ task[l].pc \in {"idle", "done"}
    /\ LET has == RaceDateStr \in DOMAIN holidayCache
           timestamp == IF RaceDateStr \in DOMAIN cacheTimestamp
                        THEN cacheTimestamp[RaceDateStr] ELSE 0
       IN  IF has /\ clock - timestamp < CACHE_DURATION
           THEN /\ task' = [task EXCEPT ![l] =
                              [pc |-> "done", i |-> 0,
                               value |-> holidayCache[RaceDateStr], path |-> "cache",
                               removed |-> FALSE, overlapped |-> FALSE]]
                /\ UNCHANGED <<holidayCache, cacheTimestamp, onlineYearCache, ret>>
           ELSE ResumeOnline(l, 1, onlineYearCache,
                             MapDelete(holidayCache, RaceDateStr),
                             MapDelete(cacheTimestamp, RaceDateStr), has)
    /\ UNCHANGED <<args, coreVars, envVars, last, clock, api, chineseDays>>

\* Mutant of FetchFails: the catch block also drops the date's entry.
FetchFailsDropsEntry(l) ==
    /\ task[l].pc = "fetching"
    /\ FinishHybrid(l, OnlineOnFailure, MapDelete(holidayCache, RaceDateStr),
                    MapDelete(cacheTimestamp, RaceDateStr), task[l].removed)
    /\ UNCHANGED <<args, coreVars, envVars, last, onlineYearCache, clock, api,
                   chineseDays>>

\* The pending request of lookup l fails: checkHolidayOnline raises and the
\* catch block of checkHolidayHybrid answers.
FetchFails(l) ==
    /\ task[l].pc = "fetching"
    /\ FinishHybrid(l, OnlineOnFailure, holidayCache, cacheTimestamp, task[l].removed)
    /\ UNCHANGED <<args, coreVars, envVars, last, onlineYearCache, clock, api,
                   chineseDays>>

\* The pending request of lookup l succeeds: the table published now goes
\* into onlineYearCache and the loop of checkHolidayOnline goes on.
FetchSucceeds(l) ==
    /\ task[l].pc = "fetching"
    /\ LET year == RaceYears[task[l].i]
       IN  ResumeOnline(l, task[l].i,
                        MapSet(onlineYearCache, year,
                               [fetchedAt |-> clock, days |-> api[year]]),
                        holidayCache, cacheTimestamp, task[l].removed)
    /\ UNCHANGED <<args, coreVars, envVars, last, clock, api, chineseDays>>

RaceTimePasses ==
    /\ clock + ClockStep <= MaxClock
    /\ clock' = clock + ClockStep
    /\ UNCHANGED <<args, ret, coreVars, envVars, runVars, holidayCache,
                   cacheTimestamp, onlineYearCache, api, chineseDays>>

\* The tables published during the lookups: a date at the year boundary is
\* absent, a day off or a workday in the table of its own year.
RaceTables ==
    {t \in ApiTables :
        \A year \in HolidayYears : \A k \in 1..Len(t[year]) :
            t[year][k].date[1] = year}

RaceApiRepublishes ==
    /\ api' \in RaceTables \ {api}
    /\ UNCHANGED <<args, ret, coreVars, envVars, runVars, holidayCache,
                   cacheTimestamp, onlineYearCache, clock, chineseDays>>

InitRace ==
    /\ args \in [date : HolidayDates]
    /\ ret = [online |-> {}]
    /\ CorePinned
    /\ bots = <<>>
    /\ db = [g \in Guilds |-> NULL]
    /\ real = [g \in Guilds |-> FALSE]
    /\ wall = Monday0900
    /\ calendar = NormalDay
    /\ outage = FALSE
    /\ task = [l \in Lookups |-> IdleLookup]
    /\ last = [g \in Guilds |-> NULL]
    /\ holidayCache = <<>>
    /\ cacheTimestamp = <<>>
    /\ onlineYearCache = <<>>
    /\ clock = 0
    /\ api \in RaceTables
    /\ chineseDays = [module |-> "absent", holidays |-> {}, inLieu |-> {}]

NextRace ==
    \/ \E l \in Lookups : BeginHybrid(l)
    \/ \E l \in Lookups : FetchFails(l)
    \/ \E l \in Lookups : FetchSucceeds(l)
    \/ RaceTimePasses
    \/ RaceApiRepublishes

SpecRace == InitRace /\ [][NextRace]_vars

\* Every finished lookup returned a classification.
LookupsReturnClassification ==
    \A l \in Lookups : task[l].pc = "done" => ~IsThrown(task[l].value)

\* A cached entry holds what some successful online lookup of the date
\* returned.
EntryFromOnlineSuccess ==
    RaceDateStr \in DOMAIN holidayCache => holidayCache[RaceDateStr] \in ret.online

\* C31 as stated: under any interleaving every lookup returns a
\* classification, the two maps have the same keys, a cached entry holds
\* the result of a successful online lookup of the date, and a lookup that
\* failed online has removed no entry.
Cex_C31_FailedLookupRemovesNothing ==
    /\ LookupsReturnClassification
    /\ DOMAIN holidayCache = DOMAIN cacheTimestamp
    /\ EntryFromOnlineSuccess
    /\ \A l \in Lookups :
          (task[l].pc = "done" /\ task[l].path = "offline") => ~task[l].removed

\* The date's entry is in both maps before the step and is gone or another
\* one after it.
EntryRemovedOrReplaced ==
    /\ RaceDateStr \in DOMAIN holidayCache
    /\ \/ RaceDateStr \notin DOMAIN holidayCache'
       \/ holidayCache'[RaceDateStr] # holidayCache[RaceDateStr]
       \/ cacheTimestamp'[RaceDateStr] # cacheTimestamp[RaceDateStr]

\* Lookup l ends in this step with the offline answer.
FailsOnlineInStep(l) ==
    task[l].pc = "fetching" /\ task'[l].pc = "done" /\ task'[l].path = "offline"

\* Lookup l ends in this step with the online answer.
SucceedsOnlineInStep(l) ==
    task[l].pc # "done" /\ task'[l].pc = "done" /\ task'[l].path = "online"

RaceStep ==
    /\ LookupsReturnClassification'
    /\ DOMAIN holidayCache' = DOMAIN cacheTimestamp'
    /\ EntryFromOnlineSuccess'
    /\ (\E l \in Lookups : FailsOnlineInStep(l)) =>
          /\ holidayCache' = holidayCache
          /\ cacheTimestamp' = cacheTimestamp
    /\ EntryRemovedOrReplaced =>
          \/ clock - cacheTimestamp[RaceDateStr] >= CACHE_DURATION
          \/ \E l \in Lookups :
                /\ SucceedsOnlineInStep(l)
                /\ holidayCache'[RaceDateStr] = task'[l].value
                /\ cacheTimestamp'[RaceDateStr] = clock

\* C31 amended: under any interleaving every lookup returns a
\* classification, the two maps have the same keys, a cached entry holds
\* the result of a successful online lookup of the date; an entry is
\* removed only when it is 24 hours old or older, by a lookup that begins,
\* and replaced only by a lookup that succeeded online; the step in which a
\* lookup fails online changes neither map.
Thm_C31_RaceKeepsValidEntries == [][RaceStep]_vars

\* Two lookups were waiting for their requests at once: one succeeded and
\* stored its result, the other then failed, answered from the offline
\* lookup and left the entry in place.
Wit_C31_FailedBesideStored ==
    /\ task["a"].pc = "done"
    /\ task["a"].path = "offline"
    /\ task["a"].overlapped
    /\ task["b"].pc = "done"
    /\ task["b"].path = "online"
    /\ RaceDateStr \in DOMAIN holidayCache
    /\ holidayCache[RaceDateStr] = task["b"].value
    /\ task["a"].value # task["b"].value

-----------------------------------------------------------------------------
(* reconcileMuteState: the row after a transition.                         *)

\* C32: when a reconciliation that performed a transition has returned, the
\* group's row has the expected isMuted, the name of the rule group that
\* gave the expected state as appliedMuteGroup, and the group's id.
Thm_C32_RowAfterTransition ==
    \A t \in Returned2Caller :
        LET rec == task[t]
        IN  rec.obs.outcome = "transitioned" =>
              /\ db[rec.obs.guild] # NULL
              /\ db[rec.obs.guild].guildId = rec.obs.guild
              /\ db[rec.obs.guild].isMuted = rec.expected.isMuted
              /\ db[rec.obs.guild].appliedMuteGroup = rec.expected.muteGroupName

\* A transition over a row that another rule group had written.
Wit_C32_RowTakesNewRuleGroup ==
    \E t \in Returned2Caller :
        LET o == task[t].obs
        IN  /\ o.outcome = "transitioned"
            /\ o.before # NULL
            /\ o.before.appliedMuteGroup # task[t].expected.muteGroupName
            /\ db[o.guild].appliedMuteGroup = task[t].expected.muteGroupName

-----------------------------------------------------------------------------
(* Specification of the mute_states table under concurrent writers: the    *)
(* table is the list of its rows, updateMuteState is called by a heartbeat *)
(* tick, by checkGroupNow and by the manual mute/unmute command, each call *)
(* suspended at its awaits.                                                *)

Writers == {"heartbeat", "check", "manual"}

IdleWriter ==
    [pc |-> "idle", guildId |-> NULL, isMuted |-> FALSE, appliedMuteGroup |-> NULL,
     existing |-> FALSE, error |-> "none"]

\* ctx.database.get('mute_states', {guildId})
TableGet(rows, guildId) == SelectSeq(rows, LAMBDA row : row.guildId = guildId)

\* ctx.database.set('mute_states', {guildId}, {...}): every matching row.
TableSet(rows, guildId, isMuted, appliedMuteGroup) ==
    [i \in 1..Len(rows) |->
        IF rows[i].guildId = guildId
        THEN Row(guildId, isMuted, appliedMuteGroup)
        ELSE rows[i]]

\* Mutant of PrimaryKeyFree: no primary key, every create is accepted.
PrimaryKeyIgnored(rows, guildId) == TRUE

\* primary: 'guildId': a row may be created when no row has its guildId.
PrimaryKeyFree(rows, guildId) == TableGet(rows, guildId) = <<>>

\* updateMuteState(ctx, guildId, isMuted, appliedMuteGroup) is called and
\* awaits getMuteState.
CallUpdateMuteState(w) ==
    /\ task[w].pc \in {"idle", "returned", "thrown"}
    /\ \E guildId \in Guilds, isMuted \in BOOLEAN :
          task' = [task EXCEPT ![w] =
                     [IdleWriter EXCEPT !.pc = "get", !.guildId = guildId,
                                        !.isMuted = isMuted,
                                        !.appliedMuteGroup =
                                            IF w = "manual" THEN "manual" ELSE "workday"]]
    /\ UNCHANGED <<args, ret, coreVars, holidayVars, envVars, last>>

\* await getMuteState resolves: existing is the first row, or null.
StoreGetReturns(w) ==
    /\ task[w].pc = "get"
    /\ task' = [task EXCEPT ![w] =
                  [@ EXCEPT !.pc = "write",
                            !.existing = (TableGet(db, task[w].guildId) # <<>>)]]
    /\ UNCHANGED <<args, ret, coreVars, holidayVars, envVars, last>>

\* The if branch: await ctx.database.set resolves.
StoreSetReturns(w) ==
    /\ task[w].pc = "write"
    /\ task[w].existing
    /\ db' = TableSet(db, task[w].guildId, task[w].isMuted, task[w].appliedMuteGroup)
    /\ task' = [task EXCEPT ![w] = [@ EXCEPT !.pc = "returned"]]
    /\ UNCHANGED <<args, ret, coreVars, holidayVars, bots, real, wall, calendar,
                   outage, last>>

\* The else branch: await ctx.database.create resolves.
StoreCreateReturns(w) ==
    /\ task[w].pc = "write"
    /\ ~task[w].existing
    /\ PrimaryKeyFree(db, task[w].guildId)
    /\ db' = Append(db, Row(task[w].guildId, task[w].isMuted, task[w].appliedMuteGroup))
    /\ task' = [task EXCEPT ![w] = [@ EXCEPT !.pc = "returned"]]
    /\ UNCHANGED <<args, ret, coreVars, holidayVars, bots, real, wall, calendar,
                   outage, last>>

\* The else branch: ctx.database.create rejects, a row with the guildId
\* having been created since the read; updateMuteState throws.
StoreCreateRejects(w) ==
    /\ task[w].pc = "write"
    /\ ~task[w].existing
    /\ TableGet(db, task[w].guildId) # <<>>
    /\ task' = [task EXCEPT ![w] = [@ EXCEPT !.pc = "thrown", !.error = "duplicate"]]
    /\ UNCHANGED <<args, ret, coreVars, holidayVars, envVars, last>>

InitStore ==
    /\ args = NULL
    /\ ret = NotCalled
    /\ CorePinned
    /\ HolidayPinned
    /\ bots = <<>>
    /\ db = <<>>
    /\ real = [g \in Guilds |-> FALSE]
    /\ wall = Monday0900
    /\ calendar = NormalDay
    /\ outage = FALSE
    /\ task = [w \in Writers |-> IdleWriter]
    /\ last = [g \in Guilds |-> NULL]

NextStore ==
    \/ \E w \in Writers : CallUpdateMuteState(w)
    \/ \E w \in Writers : StoreGetReturns(w)
    \/ \E w \in Writers : StoreSetReturns(w)
    \/ \E w \in Writers : StoreCreateReturns(w)
    \/ \E w \in Writers : StoreCreateRejects(w)

SpecStore == InitStore /\ [][NextStore]_vars

\* C33: in every reachable state, under any interleaving of the
\* updateMuteState calls of heartbeat ticks, checkGroupNow and the manual
\* commands, the table holds at most one row for each group id.
Thm_C33_OneRowPerGroup ==
    \A g \in Guilds : Len(TableGet(db, g)) <= 1

\* Two callers read "no row" for the same group; the heartbeat created the
\* row; the create of the manual command was rejected and one row is there.
Wit_C33_SecondCreateRejected ==
    /\ task["manual"].pc = "thrown"
    /\ task["manual"].error = "duplicate"
    /\ task["heartbeat"].pc = "returned"
    /\ task["heartbeat"].guildId = task["manual"].guildId
    /\ ~task["heartbeat"].existing
    /\ Len(TableGet(db, task["manual"].guildId)) = 1

-----------------------------------------------------------------------------
(* reconcileMuteState: the other groups.                                   *)

\* A reconciliation of group g is under way.
Reconciling(g) ==
    \E t \in Tasks :
        /\ task[t].obs # NULL
        /\ task[t].obs.guild = g
        /\ task[t].pc \notin {"idle", "holiday"}

OnlyReconciledGroupTouched ==
    \A g \in Guilds :
        (db'[g] # db[g] \/ real'[g] # real[g]) => Reconciling(g)

-----------------------------------------------------------------------------
(* Specification of the heartbeat beside the test command: a tick and a    *)
(* command (gipas.mute test <guildId> auto / mute / unmute) may be in      *)
(* progress together, at one instant of a normal Monday.                   *)

Callers == {"heartbeat", "command"}

\* What the mute/unmute mode hands to updateMuteState.
ManualState(enable) == [isMuted |-> enable, muteGroupName |-> "manual"]

\* gipas.mute test <guildId> mute|unmute, given a configured group:
\* setGroupMute(ctx, guildId, enable) up to its first await;
\* updateMuteState(ctx, guildId, enable, 'manual') follows it.  No row is
\* read before and no notification is sent after.
StartManual(t) ==
    /\ task[t].pc = "idle"
    /\ \E guildId \in DOMAIN groupConfigMap, enable \in BOOLEAN :
          LET started == [IdleTask EXCEPT
                             !.kind = "manual", !.now = wall,
                             !.list = <<[guildId |-> guildId]>>, !.i = 1,
                             !.expected = ManualState(enable),
                             !.obs = [NewObs(guildId, ManualState(enable))
                                         EXCEPT !.invoked = 1]]
          IN  task' = [task EXCEPT ![t] =
                         IF ReturnsWithoutBackend(guildId)
                         THEN [started EXCEPT !.pc = "updRead"]
                         ELSE [started EXCEPT !.pc = "mute",
                                              !.bots = OnebotBots(bots), !.b = 1]]
    /\ UNCHANGED <<args, ret, coreVars, holidayVars, envVars, last>>

\* A step of a call in progress in slot t.
ProgressOf(t) ==
    \/ HolidayReturns(t)
    \/ GetStateReturns(t)
    \/ BotMuteOk(t)
    \/ BotMuteFails(t)
    \/ UpdReadReturns(t)
    \/ UpdWriteOk(t)
    \/ UpdWriteFails(t)
    \/ BotSendOk(t)
    \/ BotSendFails(t)
    \/ ResumeRun(t)

InitCommands ==
    /\ args = NULL
    /\ ret = NotCalled
    /\ config = MainConfig("hybrid", <<GroupConfig100>>)
    /\ muteGroupMap = buildMaps(config).muteGroupMap
    /\ weekGroupMap = buildMaps(config).weekGroupMap
    /\ groupConfigMap = buildMaps(config).groupConfigMap
    /\ heartbeatInterval = "set"
    /\ HolidayPinned
    /\ bots = <<"onebot">>
    /\ db = [g \in Guilds |-> NULL]
    /\ real = [g \in Guilds |-> FALSE]
    /\ wall = Monday0900
    /\ calendar = NormalDay
    /\ outage = FALSE
    /\ task = [t \in Callers |-> IdleTask]
    /\ last = [g \in Guilds |-> NULL]

NextCommands ==
    \/ StartRun("heartbeat")
    \/ StartCheckGroupNow("command")
    \/ StartManual("command")
    \/ \E t \in Callers : ProgressOf(t)
    \/ OutageBegins
    \/ OutageEnds

SpecCommands == InitCommands /\ [][NextCommands]_vars

\* The reconciliation in slot t applied its expected state through a
\* backend and wrote the row.
AppliedAndPersisted(t) ==
    /\ task[t].kind \in {"run", "check"}
    /\ task[t].obs # NULL
    /\ task[t].obs.acted
    /\ task[t].obs.writes = 1

\* The reconciliation in slot u had a backend apply the same expected state
\* to the same group, having read the row the one in slot t had read.
SameTransitionApplied(t, u) ==
    /\ task[u].kind \in {"run", "check"}
    /\ task[u].obs # NULL
    /\ task[u].obs.guild = task[t].obs.guild
    /\ task[u].obs.exp = task[t].obs.exp
    /\ task[u].obs.before = task[t].obs.before
    /\ task[u].pc \notin {"getState"}
    /\ task[u].obs.acted

\* C35: under any interleaving of a heartbeat tick and checkGroupNow, the
\* external mute action is carried out at most once for a group and one
\* change of its expected state when the first invocation succeeds and is
\* persisted.
Cex_C35_ActionOncePerChange ==
    \A t, u \in Callers :
        (t # u /\ AppliedAndPersisted(t)) => ~SameTransitionApplied(t, u)

-----------------------------------------------------------------------------
(* Specification of a tick over two groups while time passes.              *)

InitTick ==
    /\ args = NULL
    /\ ret = NotCalled
    /\ config = MainConfig("hybrid", <<GroupConfig100, GroupConfig200Standard>>)
    /\ muteGroupMap = buildMaps(config).muteGroupMap
    /\ weekGroupMap = buildMaps(config).weekGroupMap
    /\ groupConfigMap = buildMaps(config).groupConfigMap
    /\ heartbeatInterval = "set"
    /\ HolidayPinned
    /\ bots = <<"onebot">>
    /\ db = [g \in Guilds |-> NULL]
    /\ real = [g \in Guilds |-> FALSE]
    /\ \E m \in Moments : wall = m.date /\ calendar = m.class
    /\ outage \in BOOLEAN
    /\ task = [t \in Tasks |-> IdleTask]
    /\ last = [g \in Guilds |-> NULL]

NextTick == TaskStep \/ TimePasses

SpecTick == InitTick /\ [][NextTick]_vars

-----------------------------------------------------------------------------
(* The manual mute/unmute command and the heartbeat after it.              *)

\* The mute/unmute commands that have returned.
ManualReturned ==
    {t \in Callers : task[t].kind = "manual" /\ task[t].pc = "reconciled"}

\* The reconciliations of the heartbeat that have returned and had read a
\* row written by the manual command.
HeartbeatAfterManual ==
    {t \in Callers : /\ task[t].kind = "run"
                     /\ task[t].pc = "reconciled"
                     /\ task[t].obs.before # NULL
                     /\ task[t].obs.before.appliedMuteGroup = "manual"}

ExpectedRow(t) ==
    Row(task[t].obs.guild, task[t].expected.isMuted, task[t].expected.muteGroupName)

\* The heartbeat found the manual row equal to the expected state: it did
\* nothing and the row kept 'manual'.
ManualRowKept(t) ==
    /\ task[t].obs.invoked = 0
    /\ task[t].obs.writes = 0
    /\ task[t].obs.notifs = 0
    /\ task[t].obs.after = task[t].obs.before

\* C37 as stated: the command calls setGroupMute and then writes the row
\* with the commanded state and 'manual'; the next tick, finding the
\* expected state different from the manual row, invokes the action and
\* overwrites the row; finding it equal, it does nothing and the row keeps
\* 'manual'.
Cex_C37_ManualThenHeartbeat ==
    /\ \A t \in ManualReturned :
          /\ task[t].obs.invoked = 1
          /\ task[t].obs.after = ExpectedRow(t)
    /\ \A t \in HeartbeatAfterManual :
          IF task[t].obs.before.isMuted # task[t].obs.exp
          THEN /\ task[t].obs.invoked = 1
               /\ task[t].obs.after = ExpectedRow(t)
          ELSE ManualRowKept(t)

\* C37 amended: the command calls setGroupMute and, unless that call or
\* the write raises, writes the row with the commanded state and 'manual';
\* the next tick, finding the expected state different from the manual
\* row, invokes the action with the expected state and, unless the action
\* or the write raises, overwrites the row; a call that raised wrote
\* nothing; finding the states equal, the tick does nothing and the row
\* keeps 'manual'.
Thm_C37_ManualThenHeartbeatUnlessFailed ==
    /\ \A t \in ManualReturned :
          /\ task[t].obs.invoked = 1
          /\ task[t].expected.muteGroupName = "manual"
          /\ IF task[t].obs.outcome = "failed"
             THEN task[t].obs.writes = 0
             ELSE task[t].obs.after = ExpectedRow(t)
    /\ \A t \in HeartbeatAfterManual :
          IF task[t].obs.before.isMuted # task[t].obs.exp
          THEN /\ task[t].obs.invoked = 1
               /\ IF task[t].obs.outcome = "failed"
                  THEN task[t].obs.writes = 0
                  ELSE task[t].obs.after = ExpectedRow(t)
          ELSE ManualRowKept(t)

\* The group was unmuted by the command; the tick after it muted it again
\* and the row went from 'manual' to the rule group of the schedule.
Wit_C37_HeartbeatOverridesManual ==
    \E t \in HeartbeatAfterManual :
        /\ task[t].obs.before = Row("100", FALSE, "manual")
        /\ task[t].obs.outcome = "transitioned"
        /\ db["100"] = Row("100", TRUE, "workday")
        /\ real["100"]

-----------------------------------------------------------------------------
(* Specification of the plugin's life: the interval timer starts ticks     *)
(* until the dispose event clears it.                                      *)

\* Mutant of TimerFires: the callback runs although the timer was cleared.
TimerFiresThoughCleared(t) == StartRun(t)

\* The callback of setInterval: muteCore.run() is called.
TimerFires(t) ==
    /\ heartbeatInterval = "set"
    /\ StartRun(t)

\* ctx.on('dispose'): clearInterval(heartbeatInterval).  ret keeps, for the
\* properties, the table and the bans as they were at that moment.
Dispose ==
    /\ heartbeatInterval = "set"
    /\ heartbeatInterval' = "cleared"
    /\ ret' = [called |-> FALSE, db |-> db, real |-> real]
    /\ UNCHANGED <<args, config, muteGroupMap, weekGroupMap, groupConfigMap,
                   holidayVars, envVars, runVars>>

InitDispose ==
    /\ args = NULL
    /\ ret = NotCalled
    /\ config = MainConfig("hybrid", <<GroupConfig100, GroupConfig200Standard>>)
    /\ muteGroupMap = buildMaps(config).muteGroupMap
    /\ weekGroupMap = buildMaps(config).weekGroupMap
    /\ groupConfigMap = buildMaps(config).groupConfigMap
    /\ heartbeatInterval = "set"
    /\ HolidayPinned
    /\ bots = <<"onebot">>
    /\ db = [g \in Guilds |-> NULL]
    /\ real = [g \in Guilds |-> FALSE]
    /\ wall = Monday0900
    /\ calendar = NormalDay
    /\ outage = FALSE
    /\ task = [t \in Tasks |-> IdleTask]
    /\ last = [g \in Guilds |-> NULL]

NextDispose ==
    \/ \E t \in Tasks : TimerFires(t)
    \/ \E t \in Tasks : ProgressOf(t)
    \/ Dispose
    \/ OutageBegins
    \/ OutageEnds

SpecDispose == InitDispose /\ [][NextDispose]_vars

\* A call of run starts in this step.
TickStarts == \E t \in Tasks : task[t].pc = "idle" /\ task'[t].pc # "idle"

AfterDisposeStep ==
    /\ heartbeatInterval = "cleared" =>
          /\ ~TickStarts
          /\ heartbeatInterval' = "cleared"
    /\ (heartbeatInterval = "set" /\ heartbeatInterval' = "cleared") =>
          /\ task' = task
          /\ db' = db
          /\ real' = real

\* C38: once the dispose event has cleared the interval timer no tick is
\* started; the dispose event itself leaves a tick in progress where it is,
\* and that tick goes on (see the witness: it still applies a state and
\* writes a row).
Thm_C38_NoTickAfterDispose == [][AfterDisposeStep]_vars

\* The plugin was disposed while a tick had not yet reached group 200; the
\* tick then muted group 200 and wrote its row.
Wit_C38_TickFinishesAfterDispose ==
    /\ heartbeatInterval = "cleared"
    /\ ret.db["200"] = NULL
    /\ ~ret.real["200"]
    /\ db["200"] # NULL
    /\ real["200"]

-----------------------------------------------------------------------------
(* Specification of updateConfig: the three maps cleared and refilled from *)
(* any configuration, with names and ids that occur more than once.        *)

MaxEntries == 2      \* longest muteGroups list of a configuration

\* Mutant of MapClear: the map is not emptied.
MapClearKeeps(map) == map

\* Map.clear()
MapClear(map) == <<>>

\* for (const e of list) map.set(e[key], e), from entry i on.
RECURSIVE SetAll(_, _, _, _)
SetAll(map, list, key, i) ==
    IF i > Len(list)
    THEN map
    ELSE SetAll(MapSet(map, list[i][key], list[i]), list, key, i + 1)

\* A second rule group named 'workday'.
MuteGroupWorkdayQuiet == [MuteGroupWorkday EXCEPT !.sendNotification = FALSE]

IndexConfigs ==
    [holidayMethod : {"offline"},
     muteGroups    : UNION {[1..n -> {MuteGroupWorkday, MuteGroupWorkdayQuiet,
                                      MuteGroupHoliday}] : n \in 0..MaxEntries},
     weekGroups    : {<<WeekGroupStandard>>,
                      <<WeekGroupStandard, WeekGroupRelaxed>>,
                      <<WeekGroupRelaxed, WeekGroupFilled, WeekGroupStandard>>},
     groupConfigs  : {<<GroupConfig200>>,
                      <<GroupConfig100, GroupConfig100Again>>,
                      <<GroupConfig100Again, GroupConfig200, GroupConfig100>>}]

\* updateConfig(config): this.config = config; buildMaps().  ret keeps, for
\* the properties, the keys the maps had before.
CallUpdateConfig ==
    /\ \E newConfig \in IndexConfigs :
          /\ config' = newConfig
          /\ muteGroupMap' = SetAll(MapClear(muteGroupMap), newConfig.muteGroups, "name", 1)
          /\ weekGroupMap' = SetAll(MapClear(weekGroupMap), newConfig.weekGroups, "name", 1)
          /\ groupConfigMap' =
                SetAll(MapClear(groupConfigMap), newConfig.groupConfigs, "guildId", 1)
    /\ ret' = Returned([muteGroups |-> DOMAIN muteGroupMap,
                        weekGroups |-> DOMAIN weekGroupMap,
                        groupConfigs |-> DOMAIN groupConfigMap])
    /\ UNCHANGED <<args, heartbeatInterval, holidayVars, envVars, runVars>>

InitIndex ==
    /\ args = NULL
    /\ ret = NotCalled
    /\ config \in IndexConfigs
    /\ muteGroupMap = buildMaps(config).muteGroupMap
    /\ weekGroupMap = buildMaps(config).weekGroupMap
    /\ groupConfigMap = buildMaps(config).groupConfigMap
    /\ heartbeatInterval = "set"
    /\ HolidayPinned
    /\ RuntimePinned

NextIndex == CallUpdateConfig

SpecIndex == InitIndex /\ [][NextIndex]_vars

\* The map has exactly the keys of the list, each with the last entry of
\* the list that has the key.
HoldsLastOfEach(map, list, key) ==
    /\ DOMAIN map = {list[i][key] : i \in 1..Len(list)}
    /\ \A i \in 1..Len(list) :
          (\A j \in 1..Len(list) : list[j][key] = list[i][key] => j <= i) =>
              map[list[i][key]] = list[i]

\* C39: after updateConfig(c) has returned, the three maps contain exactly
\* the names and ids present in c, no entry of the configuration before
\* survives, and for a name or id that occurs more than once the map holds
\* the last occurrence.
Thm_C39_MapsRebuiltFromConfig ==
    ret.called =>
        /\ HoldsLastOfEach(muteGroupMap, config.muteGroups, "name")
        /\ HoldsLastOfEach(weekGroupMap, config.weekGroups, "name")
        /\ HoldsLastOfEach(groupConfigMap, config.groupConfigs, "guildId")

\* The maps had 'holiday' and "200" before; the new configuration names
\* 'workday' and "100" twice and has neither of the two: they are gone and
\* each map holds the second entry.
Wit_C39_OldKeysGoneLastWins ==
    /\ ret.called
    /\ "holiday" \in ret.value.muteGroups
    /\ "200" \in ret.value.groupConfigs
    /\ config.muteGroups = <<MuteGroupWorkday, MuteGroupWorkdayQuiet>>
    /\ DOMAIN muteGroupMap = {"workday"}
    /\ muteGroupMap["workday"] = MuteGroupWorkdayQuiet
    /\ DOMAIN groupConfigMap = {"100"}
    /\ groupConfigMap["100"] = GroupConfig100Again

=============================================================================
